---- MODULE Spec2Model ----
(***************************************************************************)
(* Model of agentmap's git diff engine (cli/src/extract/git-status.ts):    *)
(* the unified-diff parser parseDiff with its hunk-header and path         *)
(* parsing, the numstat parser parseNumstat, the definition classifier     *)
(* calculateDefinitionDiff, the file totals calculateFileDiff and          *)
(* applyDiffToDefinitions.                                                 *)
(*                                                                         *)
(* Text is modelled as a sequence of one-character strings.  A JavaScript  *)
(* value that may be null is a sequence of length at most one: <<>> is     *)
(* null and <<v>> is the value v.                                          *)
(***************************************************************************)
EXTENDS Integers, Sequences, FiniteSets, TLC

\* ---------------------------------------------------------------- bounds
\* Highest line number of the file a definition or a hunk refers to.
MaxLine == 3
\* Highest oldCount of a hunk handed to calculateDefinitionDiff.
MaxOldCount == 1
\* Longest hunk list handed to calculateDefinitionDiff.
MaxHunks == 2
\* Most lines of a diff text handed to parseDiff.
MaxLines == 5
\* Most digits of the oldStart written in a line handed to parseHunkHeader.
MaxDigits == 2
\* Most lines of a numstat text handed to parseNumstat.
MaxRows == 3
\* Longest definition list handed to applyDiffToDefinitions.
MaxDefs == 2
\* Most calls of the parsing and counting functions made one after another.
MaxCalls == 3
\* Most lines of the output of one git invocation of getAllDiffData.
MaxOutputLines == 2
\* Most hunks of a list drawn from DefHunkPool.
MaxPoolHunks == 3
\* Most lines of a diff text handed to parseDiff as a whole.
MaxTextLines == 4

\* ------------------------------------------------------------ JS helpers
Null == <<>>
Some(v) == <<v>>

Max(a, b) == IF a >= b THEN a ELSE b
Min(a, b) == IF a <= b THEN a ELSE b

\* ------------------------------------------------------- text helpers
\* String.prototype.startsWith, and a literal found at position i.
MatchAt(s, i, p) == i >= 1 /\ i + Len(p) - 1 <= Len(s) /\ SubSeq(s, i, i + Len(p) - 1) = p
StartsWith(s, p) == MatchAt(s, 1, p)
EndsWith(s, p) == MatchAt(s, Len(s) - Len(p) + 1, p)

\* String.prototype.replace with a global pattern that is a literal.
RECURSIVE ReplaceAll(_, _, _)
ReplaceAll(s, pat, rep) ==
  IF Len(s) < Len(pat) THEN s
  ELSE IF SubSeq(s, 1, Len(pat)) = pat
       THEN rep \o ReplaceAll(SubSeq(s, Len(pat) + 1, Len(s)), pat, rep)
       ELSE <<s[1]>> \o ReplaceAll(Tail(s), pat, rep)

Digits == {"0", "1", "2", "3", "4", "5", "6", "7", "8", "9"}
DigitVal(c) ==
  CASE c = "0" -> 0 [] c = "1" -> 1 [] c = "2" -> 2 [] c = "3" -> 3 [] c = "4" -> 4
    [] c = "5" -> 5 [] c = "6" -> 6 [] c = "7" -> 7 [] c = "8" -> 8 [] c = "9" -> 9

\* parseInt(ds, 10) of a string of decimal digits.
RECURSIVE ParseDigits(_)
ParseDigits(ds) ==
  IF ds = <<>> THEN 0
  ELSE 10 * ParseDigits(SubSeq(ds, 1, Len(ds) - 1)) + DigitVal(ds[Len(ds)])

\* Last position of the run of digits that starts at i (i - 1 when s[i] is
\* no digit): what \d+ consumes from i.
RECURSIVE DigitsEnd(_, _)
DigitsEnd(s, i) ==
  IF i <= Len(s) /\ s[i] \in Digits THEN DigitsEnd(s, i + 1) ELSE i - 1

\* What `.` matches: anything but a line terminator.
IsDot(c) == c \notin {"\n", "\r"}

\* Last position of the run of `.` characters that starts at i.
RECURSIVE DotsEnd(_, _)
DotsEnd(s, i) ==
  IF i <= Len(s) /\ IsDot(s[i]) THEN DotsEnd(s, i + 1) ELSE i - 1

\* What String.prototype.trim removes.
IsWhitespace(c) == c \in {" ", "\t", "\n", "\r", "\f"}

BACKSLASH == "\\"
QUOTE == "\""

\* --------------------------------------------------------- normalizePath
\* normalizePath without the final replacement of backslashes (a changed
\* normalizePath).
normalizePathKeepsBackslashes(path) ==
  IF StartsWith(path, <<QUOTE>>) /\ EndsWith(path, <<QUOTE>>)
  THEN ReplaceAll(ReplaceAll(SubSeq(path, 2, Len(path) - 1),
                             <<BACKSLASH, QUOTE>>, <<QUOTE>>),
                  <<BACKSLASH, BACKSLASH>>, <<BACKSLASH>>)
  ELSE path

normalizePath(path) ==
  LET unquoted ==
        IF StartsWith(path, <<QUOTE>>) /\ EndsWith(path, <<QUOTE>>)
        THEN ReplaceAll(ReplaceAll(SubSeq(path, 2, Len(path) - 1),
                                   <<BACKSLASH, QUOTE>>, <<QUOTE>>),
                        <<BACKSLASH, BACKSLASH>>, <<BACKSLASH>>)
        ELSE path
  IN  ReplaceAll(unquoted, <<BACKSLASH>>, <<"/">>)

\* ------------------------------------------------------- parseHunkHeader
\* An optional group (?:,(\d+))? tried at position q: the digits it captures
\* (<<>> when the group does not take part) and the position after it.
OptionalCount(line, q) ==
  IF MatchAt(line, q, <<",">>) /\ DigitsEnd(line, q + 1) >= q + 1
  THEN [digits |-> SubSeq(line, q + 1, DigitsEnd(line, q + 1)),
        next   |-> DigitsEnd(line, q + 1) + 1]
  ELSE [digits |-> <<>>, next |-> q]

\* /@@ -(\d+)(?:,(\d+))? \+(\d+)(?:,(\d+))? @@/ tried at position i: the four
\* captured groups, or Null.
HunkMatchAt(line, i) ==
  IF ~MatchAt(line, i, <<"@", "@", " ", "-">>) THEN Null
  ELSE
    LET a  == i + 4
        e1 == DigitsEnd(line, a)
        g2 == OptionalCount(line, e1 + 1)
        b  == g2.next + 2
        e3 == DigitsEnd(line, b)
        g4 == OptionalCount(line, e3 + 1)
    IN  IF /\ e1 >= a
           /\ MatchAt(line, g2.next, <<" ", "+">>)
           /\ e3 >= b
           /\ MatchAt(line, g4.next, <<" ", "@", "@">>)
        THEN Some([m1 |-> SubSeq(line, a, e1), m2 |-> g2.digits,
                   m3 |-> SubSeq(line, b, e3), m4 |-> g4.digits])
        ELSE Null

\* line.match(...): the leftmost position at which the pattern matches.
HunkMatch(line) ==
  LET starts == {i \in 1..Len(line) : HunkMatchAt(line, i) # Null}
  IN  IF starts = {} THEN Null
      ELSE HunkMatchAt(line, CHOOSE i \in starts : \A k \in starts : i <= k)

\* parseHunkHeader with `parseInt(match[2], 10) || 1`: a count written as 0
\* falls back to 1 (a changed parseHunkHeader).
parseHunkHeaderZeroIsOne(line) ==
  LET match == HunkMatch(line)
      CountOr1(ds) == IF ds # <<>> /\ ParseDigits(ds) # 0 THEN ParseDigits(ds) ELSE 1
  IN  IF match = Null THEN Null
      ELSE Some([oldStart |-> ParseDigits(match[1].m1),
                 oldCount |-> CountOr1(match[1].m2),
                 newStart |-> ParseDigits(match[1].m3),
                 newCount |-> CountOr1(match[1].m4)])

parseHunkHeader(line) ==
  LET match == HunkMatch(line)
  IN  IF match = Null THEN Null
      ELSE Some([oldStart |-> ParseDigits(match[1].m1),
                 oldCount |-> IF match[1].m2 # <<>> THEN ParseDigits(match[1].m2) ELSE 1,
                 newStart |-> ParseDigits(match[1].m3),
                 newCount |-> IF match[1].m4 # <<>> THEN ParseDigits(match[1].m4) ELSE 1])

\* ------------------------------------------- calculateDefinitionDiff
VARIABLES def, defHunks, defResult, defPc

defVars == <<def, defHunks, defResult, defPc>>

\* Last line of the hunk's new span (hunkNewEnd).
HunkNewEnd(hunk) == hunk.newStart + hunk.newCount - 1

\* The hunk's contribution to addedInDef without the clipping to the
\* definition's span (a changed AddedLines).
AddedLinesUnclipped(d, hunk) ==
  IF Max(d.line, hunk.newStart) <= Min(d.endLine, HunkNewEnd(hunk))
  THEN hunk.newCount
  ELSE 0

\* The hunk's contribution to addedInDef counted from the hunk's first new
\* line instead of the start of the overlap (a changed AddedLines).
AddedLinesFromHunkStart(d, hunk) ==
  LET overlapStart == Max(d.line, hunk.newStart)
      overlapEnd   == Min(d.endLine, HunkNewEnd(hunk))
  IN  IF overlapStart <= overlapEnd THEN overlapEnd - hunk.newStart + 1 ELSE 0

\* One iteration of the loop: what the hunk adds to addedInDef.
AddedLines(d, hunk) ==
  LET overlapStart == Max(d.line, hunk.newStart)
      overlapEnd   == Min(d.endLine, HunkNewEnd(hunk))
  IN  IF overlapStart <= overlapEnd THEN overlapEnd - overlapStart + 1 ELSE 0

\* The hunk's contribution to deletedInDef as a share no larger than the
\* overlap (a changed DeletedLines).
DeletedLinesProportional(d, hunk) ==
  IF hunk.oldCount > 0
     /\ hunk.newStart <= d.endLine
     /\ HunkNewEnd(hunk) >= d.line
  THEN Min(hunk.oldCount, AddedLines(d, hunk))
  ELSE 0

\* The touch test with the hunk's start compared against the definition's
\* first line (a changed DeletedLines).
DeletedLinesFromStart(d, hunk) ==
  IF hunk.oldCount > 0
     /\ hunk.newStart <= d.endLine
     /\ hunk.newStart >= d.line
  THEN hunk.oldCount
  ELSE 0

\* One iteration of the loop: what the hunk adds to deletedInDef.
DeletedLines(d, hunk) ==
  IF hunk.oldCount > 0
     /\ hunk.newStart <= d.endLine
     /\ HunkNewEnd(hunk) >= d.line
  THEN hunk.oldCount
  ELSE 0

\* The loop leaving at the first hunk that starts after the definition (a
\* changed DefLoop).
RECURSIVE DefLoopBreaksPastEnd(_, _, _, _)
DefLoopBreaksPastEnd(d, hs, i, acc) ==
  IF i > Len(hs) \/ hs[i].newStart > d.endLine THEN acc
  ELSE DefLoopBreaksPastEnd(d, hs, i + 1,
               [addedInDef   |-> acc.addedInDef + AddedLines(d, hs[i]),
                deletedInDef |-> acc.deletedInDef + DeletedLines(d, hs[i])])

\* The for loop over hunks, from hunk i on, with the running totals in acc.
RECURSIVE DefLoop(_, _, _, _)
DefLoop(d, hs, i, acc) ==
  IF i > Len(hs) THEN acc
  ELSE DefLoop(d, hs, i + 1,
               [addedInDef   |-> acc.addedInDef + AddedLines(d, hs[i]),
                deletedInDef |-> acc.deletedInDef + DeletedLines(d, hs[i])])

\* The status with a strict comparison (a changed DefStatus).
DefStatusStrict(d, addedInDef, deletedInDef) ==
  LET defLineCount == d.endLine - d.line + 1
  IN  IF addedInDef > defLineCount /\ deletedInDef = 0 THEN "added" ELSE "updated"

DefStatus(d, addedInDef, deletedInDef) ==
  LET defLineCount == d.endLine - d.line + 1
  IN  IF addedInDef >= defLineCount /\ deletedInDef = 0 THEN "added" ELSE "updated"

\* calculateDefinitionDiff returning null whenever nothing was added (a
\* changed calculateDefinitionDiff).
calculateDefinitionDiffNullOnNoAdded(d, hs) ==
  LET tot == DefLoop(d, hs, 1, [addedInDef |-> 0, deletedInDef |-> 0])
  IN  IF tot.addedInDef = 0
      THEN Null
      ELSE Some([status  |-> DefStatus(d, tot.addedInDef, tot.deletedInDef),
                 added   |-> tot.addedInDef,
                 deleted |-> tot.deletedInDef])

calculateDefinitionDiff(d, hs) ==
  LET tot == DefLoop(d, hs, 1, [addedInDef |-> 0, deletedInDef |-> 0])
  IN  IF tot.addedInDef = 0 /\ tot.deletedInDef = 0
      THEN Null
      ELSE Some([status  |-> DefStatus(d, tot.addedInDef, tot.deletedInDef),
                 added   |-> tot.addedInDef,
                 deleted |-> tot.deletedInDef])

\* Inputs: a definition with 1 <= line <= endLine, and hunks whose new span
\* lies within lines 1..MaxLine.
DefSet == {d \in [line : 1..MaxLine, endLine : 1..MaxLine] : d.line <= d.endLine}

HunkSet ==
  {h \in [oldStart : {1}, oldCount : 0..MaxOldCount,
          newStart : 1..MaxLine, newCount : 0..MaxLine] :
     HunkNewEnd(h) <= MaxLine}

HunkLists == UNION {[1..n -> HunkSet] : n \in 0..MaxHunks}

DefInit ==
  /\ def \in DefSet
  /\ defHunks \in HunkLists
  /\ defResult = Null
  /\ defPc = "call"

\* Inputs with longer hunk lists over a few hunks: pure deletions, pure
\* additions and replacements at the start, middle and end of lines 1..3.
DefHunkPool ==
  { [oldStart |-> 1, oldCount |-> 1, newStart |-> 1, newCount |-> 0],
    [oldStart |-> 2, oldCount |-> 1, newStart |-> 2, newCount |-> 0],
    [oldStart |-> 3, oldCount |-> 2, newStart |-> 3, newCount |-> 0],
    [oldStart |-> 1, oldCount |-> 0, newStart |-> 1, newCount |-> 1],
    [oldStart |-> 2, oldCount |-> 0, newStart |-> 2, newCount |-> 2],
    [oldStart |-> 3, oldCount |-> 1, newStart |-> 3, newCount |-> 1],
    [oldStart |-> 1, oldCount |-> 2, newStart |-> 1, newCount |-> 3] }

DefPoolLists == UNION {[1..n -> DefHunkPool] : n \in 0..MaxPoolHunks}

DefPoolInit ==
  /\ def \in DefSet
  /\ defHunks \in DefPoolLists
  /\ defResult = Null
  /\ defPc = "call"

Classify ==
  /\ defPc = "call"
  /\ defResult' = calculateDefinitionDiff(def, defHunks)
  /\ defPc' = "done"
  /\ UNCHANGED <<def, defHunks>>

\* -------------------------------------------------------------- parseDiff
\* State of one call of parseDiff.  The for loop reads the input one line at
\* a time; `lines` holds the lines read so far and becomes the whole input
\* when the loop ends.  JavaScript arrays are references: `heap` holds the
\* hunk arrays the call has created, `hunks` and the `hunks` field of a
\* FileDiff name one of them.  Each array element carries, beside the parsed
\* DiffHunk, the number `at` of the input line it was parsed from.  `files`
\* is the Map, as its entries in iteration order.
VARIABLES lines, currentFile, hunks, heap, files, pdPc

pdVars == <<lines, currentFile, hunks, heap, files, pdPc>>

DIFF_GIT == <<"d", "i", "f", "f", " ", "-", "-", "g", "i", "t", " ">>
BINARY_FILES == <<"B", "i", "n", "a", "r", "y", " ", "f", "i", "l", "e", "s", " ">>
AT_AT == <<"@", "@">>

\* The lines the for loop may read.
LinePool ==
  { DIFF_GIT \o <<"a", "/", "x", " ", "b", "/", "x">>,
    DIFF_GIT \o <<"a", "/", "y", " ", "b", "/", "y">>,
    DIFF_GIT \o <<"x">>,
    BINARY_FILES \o <<"d", "i", "f", "f", "e", "r">>,
    <<"@", "@", " ", "-", "1", " ", "+", "1", ",", "2", " ", "@", "@">>,
    <<"@", "@", " ", "-", "3", ",", "0", " ", "+", "4", " ", "@", "@", " ", "f">>,
    <<"@", "@", " ", "b", "a", "d">>,
    <<"+", "x">> }

\* The branch of the loop body a line takes, but for the test of currentFile.
LineKind(line) ==
  IF StartsWith(line, DIFF_GIT) THEN "git"
  ELSE IF StartsWith(line, BINARY_FILES) THEN "binary"
  ELSE IF StartsWith(line, AT_AT) THEN "at"
  ELSE "other"

\* The lines of the pool by branch, and what the two parsers make of them
\* (each computed once).
GitLines == {l \in LinePool : LineKind(l) = "git"}
BinaryLines == {l \in LinePool : LineKind(l) = "binary"}
AtLines == {l \in LinePool : LineKind(l) = "at"}
OtherLines == {l \in LinePool : LineKind(l) = "other"}
ParsedHunk == [l \in AtLines |-> parseHunkHeader(l)]

\* /diff --git a\/.+ b\/(.+)/ tried at position i with " b/" found at j.
GitMatchAt(line, i, j) ==
  /\ MatchAt(line, i, DIFF_GIT \o <<"a", "/">>)
  /\ j >= i + Len(DIFF_GIT) + 3
  /\ DotsEnd(line, i + Len(DIFF_GIT) + 2) >= j - 1
  /\ MatchAt(line, j, <<" ", "b", "/">>)
  /\ DotsEnd(line, j + 3) >= j + 3

\* line.match(/diff --git a\/.+ b\/(.+)/): group 1 of the leftmost match, in
\* which the greedy first .+ reaches to the last " b/" that still lets the
\* rest match; Null when the pattern matches nowhere.
GitHeaderMatch(line) ==
  LET n      == Len(line)
      starts == {i \in 1..n : \E j \in 1..n : GitMatchAt(line, i, j)}
  IN  IF starts = {} THEN Null
      ELSE LET i == CHOOSE x \in starts : \A k \in starts : x <= k
               js == {j \in 1..n : GitMatchAt(line, i, j)}
               j == CHOOSE x \in js : \A k \in js : x >= k
           IN  Some(SubSeq(line, j + 3, DotsEnd(line, j + 3)))

GitMatched == [l \in GitLines |-> GitHeaderMatch(l)]

\* A string | null used as a condition: null and '' are falsy.
Truthy(file) == file # Null /\ file[1] # <<>>

\* currentFile after a `diff --git ` line that keeps the previous file when
\* the line yields no path (a changed NextCurrentFile).
NextCurrentFileKeep(file, line) ==
  LET match == GitMatched[line]
  IN  IF match # Null THEN Some(normalizePath(match[1])) ELSE file

\* currentFile after a `diff --git ` line.
NextCurrentFile(file, line) ==
  LET match == GitMatched[line]
  IN  IF match # Null THEN Some(normalizePath(match[1])) ELSE Null

\* Map.prototype.set that puts a new key first (a changed MapSet).
MapSetFirst(map, key, value) ==
  IF \E i \in 1..Len(map) : map[i].key = key
  THEN [i \in 1..Len(map) |->
          IF map[i].key = key THEN [key |-> key, value |-> value] ELSE map[i]]
  ELSE <<[key |-> key, value |-> value]>> \o map

\* Map.prototype.set: a present key keeps its place and gets the new value,
\* a new key goes last.
MapSet(map, key, value) ==
  IF \E i \in 1..Len(map) : map[i].key = key
  THEN [i \in 1..Len(map) |->
          IF map[i].key = key THEN [key |-> key, value |-> value] ELSE map[i]]
  ELSE Append(map, [key |-> key, value |-> value])

\* "Save previous file" without the test for an empty hunk list (a changed
\* SaveFile).
SaveFileAlways(map, file, arr, hp) ==
  IF Truthy(file)
  THEN MapSet(map, file[1], [path |-> file[1], hunks |-> arr])
  ELSE map

\* "Save previous file" / "Save last file".
SaveFile(map, file, arr, hp) ==
  IF Truthy(file) /\ Len(hp[arr]) > 0
  THEN MapSet(map, file[1], [path |-> file[1], hunks |-> arr])
  ELSE map

\* `hunks = []` done by emptying the array in place (a changed NewHunks).
NewHunksInPlace(hp, arr) ==
  [heap |-> [hp EXCEPT ![arr] = <<>>], hunks |-> arr]

\* `hunks = []`: a new, empty array.
NewHunks(hp, arr) ==
  [heap |-> Append(hp, <<>>), hunks |-> Len(hp) + 1]

\* !diffOutput.trim(), for diffOutput the lines ls joined by "\n".
TrimIsEmpty(ls) ==
  \A i \in 1..Len(ls) : \A k \in 1..Len(ls[i]) : IsWhitespace(ls[i][k])

PdInit ==
  /\ lines = <<>>
  /\ currentFile = Null
  /\ hunks = 1
  /\ heap = <<<<>>>>
  /\ files = <<>>
  /\ pdPc = "loop"

\* The loop reads one more line.
ReadLine(line) ==
  /\ pdPc = "loop"
  /\ Len(lines) < MaxLines
  /\ lines' = Append(lines, line)
  /\ pdPc' = "loop"

\* if (line.startsWith('diff --git ')) { ... continue }
DiffGitLine ==
  \E line \in GitLines :
    /\ ReadLine(line)
    /\ files' = SaveFile(files, currentFile, hunks, heap)
    /\ currentFile' = NextCurrentFile(currentFile, line)
    /\ heap' = NewHunks(heap, hunks).heap
    /\ hunks' = NewHunks(heap, hunks).hunks

\* The `Binary files ` branch without `currentFile = null` (a changed
\* BinaryLine).
BinaryLineKeepsFile ==
  \E line \in BinaryLines :
    /\ ReadLine(line)
    /\ currentFile' = currentFile
    /\ heap' = NewHunks(heap, hunks).heap
    /\ hunks' = NewHunks(heap, hunks).hunks
    /\ UNCHANGED files

\* if (line.startsWith('Binary files ')) { ... continue }
BinaryLine ==
  \E line \in BinaryLines :
    /\ ReadLine(line)
    /\ currentFile' = Null
    /\ heap' = NewHunks(heap, hunks).heap
    /\ hunks' = NewHunks(heap, hunks).hunks
    /\ UNCHANGED files

\* The `@@` branch with a parse failure that drops the hunks accumulated so
\* far (a changed HunkLine).
HunkLineDropsOnFailure ==
  \E line \in AtLines :
    /\ ReadLine(line)
    /\ Truthy(currentFile)
    /\ heap' = IF ParsedHunk[line] # Null
               THEN [heap EXCEPT ![hunks] =
                       Append(@, [hunk |-> ParsedHunk[line][1],
                                  at   |-> Len(lines) + 1])]
               ELSE [heap EXCEPT ![hunks] = <<>>]
    /\ UNCHANGED <<currentFile, hunks, files>>

\* if (line.startsWith('@@') && currentFile) { ... hunks.push(hunk) ... }
HunkLine ==
  \E line \in AtLines :
    /\ ReadLine(line)
    /\ Truthy(currentFile)
    /\ heap' = IF ParsedHunk[line] # Null
               THEN [heap EXCEPT ![hunks] =
                       Append(@, [hunk |-> ParsedHunk[line][1],
                                  at   |-> Len(lines) + 1])]
               ELSE heap
    /\ UNCHANGED <<currentFile, hunks, files>>

\* Any other line, and a `@@` line while currentFile is falsy: the loop
\* body does nothing.
OtherLine ==
  \E line \in OtherLines \cup AtLines :
    /\ ReadLine(line)
    /\ line \in AtLines => ~Truthy(currentFile)
    /\ UNCHANGED <<currentFile, hunks, heap, files>>

\* End of input: the early return for blank input, else "Save last file".
Finish ==
  /\ pdPc = "loop"
  /\ files' = IF TrimIsEmpty(lines) THEN <<>>
              ELSE SaveFile(files, currentFile, hunks, heap)
  /\ pdPc' = "done"
  /\ UNCHANGED <<lines, currentFile, hunks, heap>>

\* The Map parseDiff returns, with each FileDiff's hunk array read out.
Result ==
  [i \in 1..Len(files) |->
     [key   |-> files[i].key,
      path  |-> files[i].value.path,
      hunks |-> [k \in 1..Len(heap[files[i].value.hunks]) |->
                   heap[files[i].value.hunks][k].hunk]]]

\* ---------------------------------------- parseDiff as a function of its text
\* parseDiff run from its first line to its return on a whole input, for the
\* callers that hand it a text.  The lines of these texts:
TextPool ==
  { DIFF_GIT \o <<"a", "/", "x", " ", "b", "/", "x">>,
    DIFF_GIT \o <<"a", "/", "d", BACKSLASH, "e", " ", "b", "/", "d", BACKSLASH, "e">>,
    DIFF_GIT \o <<"a", "/", "x", " ", "b", "/", "y", " ", "b", "/", "x", " ", "b", "/", "y">>,
    DIFF_GIT \o <<"a", "/", QUOTE, "q", QUOTE, " ", "b", "/", QUOTE, "q", QUOTE>>,
    DIFF_GIT \o <<"x">>,
    BINARY_FILES \o <<"d", "i", "f", "f", "e", "r">>,
    <<"@", "@", " ", "-", "1", " ", "+", "1", ",", "2", " ", "@", "@">>,
    <<"@", "@", " ", "-", "3", ",", "0", " ", "+", "4", " ", "@", "@", " ", "f">> }

\* What the two parsers make of the lines of the pool (computed once).
TextGitTable == [l \in TextPool |-> GitHeaderMatch(l)]
TextHunkTable == [l \in TextPool |-> parseHunkHeader(l)]
TextGitMatch(line) == TextGitTable[line]
TextHunk(line) == TextHunkTable[line]

\* The locals of parseDiff before the loop.
PdStart == [currentFile |-> Null, hunks |-> 1, heap |-> <<<<>>>>, files |-> <<>>]

\* currentFile = match ? normalizePath(match[1]) : null
TextCurrentFile(match) ==
  IF match # Null THEN Some(normalizePath(match[1])) ELSE Null

\* hunks = []: the locals with `hunks` naming a new empty array.
PdNewHunks(st, arrays) == [st EXCEPT !.hunks = arrays.hunks, !.heap = arrays.heap]

\* if (hunk) { hunks.push(hunk) }
PdPush(st, hunk, n) ==
  IF hunk # Null
  THEN [st EXCEPT !.heap[st.hunks] = Append(@, [hunk |-> hunk[1], at |-> n])]
  ELSE st

\* The body of the loop for the line numbered n.
PdStep(st, line, n) ==
  IF StartsWith(line, DIFF_GIT)
  THEN [PdNewHunks(st, NewHunks(st.heap, st.hunks)) EXCEPT
          !.currentFile = TextCurrentFile(TextGitMatch(line)),
          !.files = SaveFile(st.files, st.currentFile, st.hunks, st.heap)]
  ELSE IF StartsWith(line, BINARY_FILES)
  THEN [PdNewHunks(st, NewHunks(st.heap, st.hunks)) EXCEPT !.currentFile = Null]
  ELSE IF StartsWith(line, AT_AT) /\ Truthy(st.currentFile)
  THEN PdPush(st, TextHunk(line), n)
  ELSE st

RECURSIVE PdLoop(_, _, _)
PdLoop(ls, n, st) ==
  IF n > Len(ls) THEN st ELSE PdLoop(ls, n + 1, PdStep(st, ls[n], n))

\* The Map `map` as its entries in iteration order, each FileDiff with its
\* hunk array read out of the arrays hp.
PdEntries(map, hp) ==
  [i \in 1..Len(map) |->
     [key   |-> map[i].key,
      path  |-> map[i].value.path,
      hunks |-> hp[map[i].value.hunks]]]

\* "Save last file" and return files.
PdReturn(st) ==
  PdEntries(SaveFile(st.files, st.currentFile, st.hunks, st.heap), st.heap)

\* parseDiff without "Save last file" after the loop (a changed
\* parseDiffText).
parseDiffTextNoLastSave(ls) ==
  IF TrimIsEmpty(ls) THEN <<>>
  ELSE PdEntries(PdLoop(ls, 1, PdStart).files, PdLoop(ls, 1, PdStart).heap)

\* The Map returned for the text whose lines are ls.
parseDiffText(ls) ==
  IF TrimIsEmpty(ls) THEN <<>> ELSE PdReturn(PdLoop(ls, 1, PdStart))

\* One call of parseDiff on a whole text: the argument as its lines, the
\* Map returned and where the call stands.
VARIABLES ptText, ptResult, ptPc

ptVars == <<ptText, ptResult, ptPc>>

PtTexts == UNION {[1..n -> TextPool] : n \in 0..MaxTextLines}

PtInit ==
  /\ ptText \in PtTexts
  /\ ptResult = <<>>
  /\ ptPc = "call"

ParseText ==
  /\ ptPc = "call"
  /\ ptResult' = parseDiffText(ptText)
  /\ ptPc' = "done"
  /\ UNCHANGED ptText

\* ----------------------------------------------------------- parseNumstat
TAB == "\t"

\* String.prototype.split on a one-character separator.
RECURSIVE Split(_, _)
Split(s, c) ==
  LET at == {i \in 1..Len(s) : s[i] = c}
  IN  IF at = {} THEN <<s>>
      ELSE LET i == CHOOSE x \in at : \A k \in at : x <= k
           IN  <<SubSeq(s, 1, i - 1)>> \o Split(SubSeq(s, i + 1, Len(s)), c)

\* Array.prototype.join with a one-character separator.
RECURSIVE Join(_, _)
Join(parts, c) ==
  IF parts = <<>> THEN <<>>
  ELSE IF Len(parts) = 1 THEN parts[1]
  ELSE parts[1] \o <<c>> \o Join(Tail(parts), c)

\* !line.trim()
IsBlank(line) == \A k \in 1..Len(line) : IsWhitespace(line[k])

\* First position of s at or after i that holds no white space.
RECURSIVE SkipWhitespace(_, _)
SkipWhitespace(s, i) ==
  IF i <= Len(s) /\ IsWhitespace(s[i]) THEN SkipWhitespace(s, i + 1) ELSE i

\* parseInt(s, 10): leading white space is skipped, a sign is read, then the
\* longest run of digits; what follows the digits is ignored.  Null is NaN.
ParseInt(s) ==
  LET i     == SkipWhitespace(s, 1)
      minus == i <= Len(s) /\ s[i] = "-"
      d     == IF i <= Len(s) /\ s[i] \in {"-", "+"} THEN i + 1 ELSE i
      e     == DigitsEnd(s, d)
  IN  IF e < d THEN Null
      ELSE Some(IF minus THEN 0 - ParseDigits(SubSeq(s, d, e))
                ELSE ParseDigits(SubSeq(s, d, e)))

\* The body of parseNumstat's loop for one line: the branch it takes and,
\* when the row is stored, the key and the counts.
NumstatRow(line) ==
  LET parts   == Split(line, TAB)
      skip(k) == [kind |-> k, path |-> <<>>, added |-> 0, deleted |-> 0]
  IN  IF IsBlank(line) THEN skip("blank")
      ELSE IF Len(parts) < 3 THEN skip("short")
      ELSE
        LET addedStr   == parts[1]
            deletedStr == parts[2]
            path       == normalizePath(Join(SubSeq(parts, 3, Len(parts)), TAB))
            added      == ParseInt(addedStr)
            deleted    == ParseInt(deletedStr)
        IN  IF addedStr = <<"-">> \/ deletedStr = <<"-">> THEN skip("binary")
            ELSE IF added = Null \/ deleted = Null THEN skip("nan")
            ELSE IF added[1] = 0 /\ deleted[1] = 0 THEN skip("zero")
            ELSE [kind |-> "set", path |-> path,
                  added |-> added[1], deleted |-> deleted[1]]

\* The lines handed to parseNumstat, each as the fields it is written from
\* (no field holds a tab), and as text.
NsRowFields ==
  { <<<<"3">>, <<"1">>, <<"a">>>>,
    <<<<"1", "2">>, <<"0">>, <<"a">>>>,
    <<<<"0">>, <<"4">>, <<"b">>>>,
    <<<<"0">>, <<"0">>, <<"a">>>>,
    <<<<"-">>, <<"-">>, <<"a">>>>,
    <<<<"3">>, <<"-">>, <<"b">>>>,
    <<<<"-", "3">>, <<"5">>, <<"a">>>>,
    <<<<"x">>, <<"1">>, <<"a">>>>,
    <<<<"2", "x">>, <<"1">>, <<"b">>>>,
    <<<<"7">>, <<"2">>, <<QUOTE, "a", QUOTE>>>>,
    <<<<"1">>, <<"1">>, <<"d", BACKSLASH, "e">>>>,
    <<<<>>>>,
    <<<<" ">>>>,
    <<<<>>, <<>>, <<>>>>,
    <<<<"3">>, <<"a">>>>,
    <<<<"1">>, <<"2">>, <<"a">>, <<"b">>>> }
NsPool == {Join(f, TAB) : f \in NsRowFields}

\* What the loop body makes of each line of the pool (computed once), and
\* the lines of the pool by branch.
NsParsed == [l \in NsPool |-> NumstatRow(l)]
NsLinesOfKind(k) == {l \in NsPool : NsParsed[l].kind = k}
NsBlankLines == NsLinesOfKind("blank")
NsShortLines == NsLinesOfKind("short")
NsBinaryRows == NsLinesOfKind("binary")
NsNaNRows == NsLinesOfKind("nan")
NsZeroRows == NsLinesOfKind("zero")
NsSetRows == NsLinesOfKind("set")

\* State of one call of parseNumstat: the lines the loop has read, the Map
\* `stats` as its entries in iteration order, and where the call stands.
VARIABLES nsLines, stats, nsPc

nsVars == <<nsLines, stats, nsPc>>

NsInit ==
  /\ nsLines = <<>>
  /\ stats = <<>>
  /\ nsPc = "loop"

\* The loop reads one more line.
NsReadLine(line) ==
  /\ nsPc = "loop"
  /\ Len(nsLines) < MaxRows
  /\ nsLines' = Append(nsLines, line)
  /\ nsPc' = "loop"

\* The NaN branch removing the entry of the row's path (a changed NsNaNRow).
NsNaNRowDeletes ==
  \E line \in NsNaNRows :
    LET parts == Split(line, TAB)
        path  == normalizePath(Join(SubSeq(parts, 3, Len(parts)), TAB))
        Other(e) == e.key # path
    IN  /\ NsReadLine(line)
        /\ stats' = SelectSeq(stats, Other)

\* The zero branch storing the row all the same (a changed NsZeroRow).
NsZeroRowStores ==
  \E line \in NsZeroRows :
    /\ NsReadLine(line)
    /\ stats' = MapSet(stats, NsParsed[line].path, [added |-> 0, deleted |-> 0])

\* The `-` branch giving up what was stored so far (a changed NsBinaryRow).
NsBinaryRowClears ==
  \E line \in NsBinaryRows : NsReadLine(line) /\ stats' = <<>>

\* The branch for too few fields giving up what was stored so far (a changed
\* NsShortLine).
NsShortLineClears ==
  \E line \in NsShortLines : NsReadLine(line) /\ stats' = <<>>

\* stats.set that leaves a path already present as it is (a changed
\* NsSetRow).
NsSetRowKeepsFirst ==
  \E line \in NsSetRows :
    /\ NsReadLine(line)
    /\ stats' = IF \E i \in 1..Len(stats) : stats[i].key = NsParsed[line].path
                THEN stats
                ELSE MapSet(stats, NsParsed[line].path,
                            [added |-> NsParsed[line].added,
                             deleted |-> NsParsed[line].deleted])

\* if (!line.trim()) continue
NsBlankLine ==
  \E line \in NsBlankLines : NsReadLine(line) /\ UNCHANGED stats

\* if (parts.length < 3) continue
NsShortLine ==
  \E line \in NsShortLines : NsReadLine(line) /\ UNCHANGED stats

\* if (addedStr === '-' || deletedStr === '-') { continue }
NsBinaryRow ==
  \E line \in NsBinaryRows : NsReadLine(line) /\ UNCHANGED stats

\* if (isNaN(added) || isNaN(deleted)) continue
NsNaNRow ==
  \E line \in NsNaNRows : NsReadLine(line) /\ UNCHANGED stats

\* if (added === 0 && deleted === 0) continue
NsZeroRow ==
  \E line \in NsZeroRows : NsReadLine(line) /\ UNCHANGED stats

\* stats.set(path, { added, deleted })
NsSetRow ==
  \E line \in NsSetRows :
    /\ NsReadLine(line)
    /\ stats' = MapSet(stats, NsParsed[line].path,
                       [added |-> NsParsed[line].added,
                        deleted |-> NsParsed[line].deleted])

\* End of input: the early return for blank input, else the return after the
\* loop.
NsFinish ==
  /\ nsPc = "loop"
  /\ stats' = IF TrimIsEmpty(nsLines) THEN <<>> ELSE stats
  /\ nsPc' = "done"
  /\ UNCHANGED nsLines

\* parseNumstat as a function of the lines of its input.
RECURSIVE NumstatLoop(_, _)
NumstatLoop(ls, map) ==
  IF ls = <<>> THEN map
  ELSE LET r == NsParsed[Head(ls)]
       IN  NumstatLoop(Tail(ls),
                       IF r.kind = "set"
                       THEN MapSet(map, r.path, [added |-> r.added, deleted |-> r.deleted])
                       ELSE map)
parseNumstat(ls) == IF TrimIsEmpty(ls) THEN <<>> ELSE NumstatLoop(ls, <<>>)

\* ------------------------------------------------ calls of parseHunkHeader
\* One call of parseHunkHeader: its argument, its result and where the call
\* stands.  `hhParts` records the pieces the argument was written from.
VARIABLES hhParts, hhLine, hhResult, hhPc

hhVars == <<hhParts, hhLine, hhResult, hhPc>>

\* The pieces of the lines handed to parseHunkHeader: leading text, the two
\* start numbers, the two optional counts, what separates the old from the
\* new range, and the end of the header.
HhPrefixes == {<<>>, <<"x">>, <<"@", "@", " ", "x", " ">>}
HhOldStarts == UNION {[1..n -> {"0", "2"}] : n \in 0..MaxDigits}
HhNewStarts == {<<>>, <<"0">>, <<"3", "4">>}
HhCounts == {<<>>, <<",">>, <<",", "0">>, <<",", "1">>, <<",", "1", "2">>}
HhSeparators == {<<" ", "+">>, <<" ">>}
HhTails == {<<" ", "@", "@">>, <<" ", "@", "@", " ", "f">>, <<"@", "@">>, <<>>}

HhPartsSet ==
  [pre : HhPrefixes, oldStart : HhOldStarts, oldCount : HhCounts,
   sep : HhSeparators, newStart : HhNewStarts, newCount : HhCounts,
   tail : HhTails]

\* The line written from its pieces.
HhText(p) ==
  p.pre \o <<"@", "@", " ", "-">> \o p.oldStart \o p.oldCount \o p.sep
        \o p.newStart \o p.newCount \o p.tail

HhInit ==
  /\ hhParts \in HhPartsSet
  /\ hhLine = HhText(hhParts)
  /\ hhResult = Null
  /\ hhPc = "call"

\* parseHunkHeader(line) runs; the regular expression and parseInt raise no
\* exception, so the call always returns.
ParseHunk ==
  /\ hhPc = "call"
  /\ hhResult' = parseHunkHeader(hhLine)
  /\ hhPc' = "done"
  /\ UNCHANGED <<hhParts, hhLine>>

\* ------------------------------------------------------ calculateFileDiff
\* The loop with the two counts exchanged (a changed FileLoop).
RECURSIVE FileLoopSwapsCounts(_, _, _)
FileLoopSwapsCounts(hs, i, acc) ==
  IF i > Len(hs) THEN acc
  ELSE FileLoopSwapsCounts(hs, i + 1, [added   |-> acc.added + hs[i].oldCount,
                                       deleted |-> acc.deleted + hs[i].newCount])

\* for (const hunk of hunks) { added += hunk.newCount; deleted += hunk.oldCount }
RECURSIVE FileLoop(_, _, _)
FileLoop(hs, i, acc) ==
  IF i > Len(hs) THEN acc
  ELSE FileLoop(hs, i + 1, [added   |-> acc.added + hs[i].newCount,
                            deleted |-> acc.deleted + hs[i].oldCount])

\* calculateFileDiff returning null as soon as one of the totals is 0 (a
\* changed calculateFileDiff).
calculateFileDiffNullOnEitherZero(hs) ==
  LET tot == FileLoop(hs, 1, [added |-> 0, deleted |-> 0])
  IN  IF Len(hs) = 0 THEN Null
      ELSE IF tot.added = 0 \/ tot.deleted = 0 THEN Null
      ELSE Some(tot)

calculateFileDiff(hs) ==
  LET tot == FileLoop(hs, 1, [added |-> 0, deleted |-> 0])
  IN  IF Len(hs) = 0 THEN Null
      ELSE IF tot.added = 0 /\ tot.deleted = 0 THEN Null
      ELSE Some(tot)

\* One call of calculateFileDiff: its argument, its result and where the
\* call stands.
VARIABLES fdHunks, fdResult, fdPc

fdVars == <<fdHunks, fdResult, fdPc>>

FdInit ==
  /\ fdHunks \in HunkLists
  /\ fdResult = Null
  /\ fdPc = "call"

SumFile ==
  /\ fdPc = "call"
  /\ fdResult' = calculateFileDiff(fdHunks)
  /\ fdPc' = "done"
  /\ UNCHANGED fdHunks

\* ------------------------------------------------- applyDiffToDefinitions
\* A Definition as applyDiffToDefinitions sees it: the span that
\* calculateDefinitionDiff reads and the optional `diff`, which a definition
\* may carry from before.
StaleDiff == [status |-> "updated", added |-> 1, deleted |-> 1]
AdDefSet ==
  {[line |-> d.line, endLine |-> d.endLine, diff |-> x] :
     d \in DefSet, x \in {Null, Some(StaleDiff)}}
AdDefLists == UNION {[1..n -> AdDefSet] : n \in 0..MaxDefs}

\* The fileDiff arguments tried: undefined, and a FileDiff with no hunk, an
\* added line, a replaced line, a deleted line, two hunks.
AdHunkPool ==
  { <<>>,
    <<[oldStart |-> 1, oldCount |-> 0, newStart |-> 1, newCount |-> 1]>>,
    <<[oldStart |-> 2, oldCount |-> 1, newStart |-> 2, newCount |-> 1]>>,
    <<[oldStart |-> 2, oldCount |-> 1, newStart |-> 1, newCount |-> 0]>>,
    <<[oldStart |-> 1, oldCount |-> 0, newStart |-> 1, newCount |-> 2],
      [oldStart |-> 2, oldCount |-> 1, newStart |-> 3, newCount |-> 1]>> }
AdFileDiffs == {Null} \cup {Some([path |-> <<"x">>, hunks |-> hs]) : hs \in AdHunkPool}

\* The callback of definitions.map.  calculateDefinitionDiff reads numbers
\* only and cannot throw, so the catch block is never entered.
ApplyToDef(d, hs) ==
  LET diff == calculateDefinitionDiff(d, hs)
  IN  IF diff # Null THEN [d EXCEPT !.diff = diff] ELSE d

\* applyDiffToDefinitions assigning `diff` whatever calculateDefinitionDiff
\* returns, null included (a changed applyDiffToDefinitions).
applyDiffToDefinitionsAlwaysAssigns(definitions, fileDiff) ==
  IF fileDiff = Null \/ Len(fileDiff[1].hunks) = 0 THEN definitions
  ELSE [i \in 1..Len(definitions) |->
          [definitions[i] EXCEPT
             !.diff = calculateDefinitionDiff(definitions[i], fileDiff[1].hunks)]]

applyDiffToDefinitions(definitions, fileDiff) ==
  IF fileDiff = Null \/ Len(fileDiff[1].hunks) = 0 THEN definitions
  ELSE [i \in 1..Len(definitions) |-> ApplyToDef(definitions[i], fileDiff[1].hunks)]

\* One call of applyDiffToDefinitions: the two argument objects, the list
\* returned and where the call stands.
VARIABLES adDefs, adFileDiff, adResult, adPc

adVars == <<adDefs, adFileDiff, adResult, adPc>>

AdInit ==
  /\ adDefs \in AdDefLists
  /\ adFileDiff \in AdFileDiffs
  /\ adResult = <<>>
  /\ adPc = "call"

\* The call: map builds new objects with the spread { ...def, diff }, and
\* nothing is assigned to the arguments.
ApplyDiff ==
  /\ adPc = "call"
  /\ adResult' = applyDiffToDefinitions(adDefs, adFileDiff)
  /\ adPc' = "done"
  /\ UNCHANGED <<adDefs, adFileDiff>>

\* ------------------------------------- definition counts and file totals
\* The hunks of one file handed to calculateDefinitionDiff for each of the
\* file's definitions and to calculateFileDiff: the definitions, the hunk
\* list, the result per definition, the file's totals and which calls
\* have been made.
VARIABLES totDefs, totHunks, totDefDiffs, totFileDiff, totPc

totVars == <<totDefs, totHunks, totDefDiffs, totFileDiff, totPc>>

TotDefSets == {D \in SUBSET DefSet : Cardinality(D) <= MaxDefs}
TotHunkLists == UNION {[1..n -> DefHunkPool] : n \in 0..MaxHunks}

TotInit ==
  /\ totDefs \in TotDefSets
  /\ totHunks \in TotHunkLists
  /\ totDefDiffs = <<>>
  /\ totFileDiff = Null
  /\ totPc = "definitions"

DefinitionDiffs ==
  /\ totPc = "definitions"
  /\ totDefDiffs' = [d \in totDefs |-> calculateDefinitionDiff(d, totHunks)]
  /\ totPc' = "file"
  /\ UNCHANGED <<totDefs, totHunks, totFileDiff>>

FileDiffTotals ==
  /\ totPc = "file"
  /\ totFileDiff' = calculateFileDiff(totHunks)
  /\ totPc' = "done"
  /\ UNCHANGED <<totDefs, totHunks, totDefDiffs>>

\* ------------------------------------------------- calls one after another
\* The exported functions called one after another in any order.  The module
\* has no binding but the constant GIT_DIFF_OPTIONS: the Map, the arrays and
\* the counters a call works on are created in its body.  `callLog` records
\* each call: the function, the argument and what was returned.
VARIABLES callLog

callVars == <<callLog>>

\* The arguments tried.
NumstatTexts ==
  { <<<<"3", TAB, "1", TAB, "a">>>>,
    <<<<"0", TAB, "4", TAB, "b">>, <<"1", "2", TAB, "0", TAB, "a">>>>,
    <<<<" ">>>> }
DiffTexts ==
  { <<DIFF_GIT \o <<"a", "/", "x", " ", "b", "/", "x">>,
      <<"@", "@", " ", "-", "1", " ", "+", "1", ",", "2", " ", "@", "@">>>>,
    <<DIFF_GIT \o <<"a", "/", "d", BACKSLASH, "e", " ", "b", "/", "d", BACKSLASH, "e">>,
      <<"@", "@", " ", "-", "3", ",", "0", " ", "+", "4", " ", "@", "@", " ", "f">>,
      <<"@", "@", " ", "-", "1", " ", "+", "1", ",", "2", " ", "@", "@">>>>,
    <<<<>>>> }
HeaderLines ==
  { <<"@", "@", " ", "-", "1", " ", "+", "1", ",", "2", " ", "@", "@">>,
    <<"@", "@", " ", "-", "3", ",", "0", " ", "+", "4", " ", "@", "@", " ", "f">>,
    DIFF_GIT \o <<"x">> }
DefArgs == {[def |-> [line |-> 1, endLine |-> 2], hunks |-> hs] : hs \in AdHunkPool}

CallInit == callLog = <<>>

\* One more call, returning `result` for `arg`.
Call(fn, arg, result) ==
  /\ Len(callLog) < MaxCalls
  /\ callLog' = Append(callLog, [fn |-> fn, arg |-> arg, result |-> result])

\* What the last call of fn before this one returned, `none` before the
\* first.
LastResult(fn, none) ==
  LET at == {i \in 1..Len(callLog) : callLog[i].fn = fn}
  IN  IF at = {} THEN none
      ELSE callLog[CHOOSE i \in at : \A k \in at : i >= k].result

\* parseNumstat with `stats` kept from one call to the next instead of
\* `new Map()` in the body (a changed CallParseNumstat).
CallParseNumstatKeepsMap ==
  \E text \in NumstatTexts :
    Call("parseNumstat", text,
         IF TrimIsEmpty(text) THEN LastResult("parseNumstat", <<>>)
         ELSE NumstatLoop(text, LastResult("parseNumstat", <<>>)))

CallParseNumstat ==
  \E text \in NumstatTexts : Call("parseNumstat", text, parseNumstat(text))

CallParseDiff ==
  \E text \in DiffTexts : Call("parseDiff", text, parseDiffText(text))

CallParseHunkHeader ==
  \E line \in HeaderLines : Call("parseHunkHeader", line, parseHunkHeader(line))

CallCalculateDefinitionDiff ==
  \E a \in DefArgs :
    Call("calculateDefinitionDiff", a, calculateDefinitionDiff(a.def, a.hunks))

CallCalculateFileDiff ==
  \E hs \in AdHunkPool : Call("calculateFileDiff", hs, calculateFileDiff(hs))

\* ---------------------------------------------------------- getAllDiffData
\* One call of getAllDiffData.  execSync either returns the text git wrote
\* or throws; `gaNumstatExec` and `gaDiffExec` record which, for the
\* --numstat and the --unified=0 invocation.  gaPc is the statement the call
\* stands at; "thrown" stands for an exception leaving getAllDiffData.
VARIABLES gaNumstatExec, gaDiffExec, fileStats, fileDiffs, gaPc

gaVars == <<gaNumstatExec, gaDiffExec, fileStats, fileDiffs, gaPc>>

\* The lines git may write, and the outcomes of an invocation.
GaRowPool ==
  { <<"1", TAB, "1", TAB, "d", BACKSLASH, "e">>,
    <<"7", TAB, "2", TAB, QUOTE, "a", QUOTE>>,
    <<"-", TAB, "-", TAB, "a">> }
GaLinePool ==
  { DIFF_GIT \o <<"a", "/", "d", BACKSLASH, "e", " ", "b", "/", "d", BACKSLASH, "e">>,
    DIFF_GIT \o <<"a", "/", QUOTE, "q", QUOTE, " ", "b", "/", QUOTE, "q", QUOTE>>,
    <<"@", "@", " ", "-", "1", " ", "+", "1", ",", "2", " ", "@", "@">> }
ExecFailed == [failed |-> TRUE, text |-> <<>>]
ExecOutcomes(pool) ==
  {ExecFailed} \cup
    {[failed |-> FALSE, text |-> t] :
       t \in UNION {[1..n -> pool] : n \in 0..MaxOutputLines}}
NotRun == [failed |-> FALSE, text |-> <<>>]

\* safeExec: the text, or '' when execSync threw (the warning is written to
\* stderr and has no part in the result).
safeExec(outcome) == IF outcome.failed THEN <<<<>>>> ELSE outcome.text

GaInit ==
  /\ gaNumstatExec = NotRun
  /\ gaDiffExec = NotRun
  /\ fileStats = <<>>
  /\ fileDiffs = <<>>
  /\ gaPc = "stats"

\* fileStats = getFileStats(dir).  safeExec catches what execSync throws and
\* parseNumstat throws nothing, so the catch block around the call is not
\* entered.
GetFileStats ==
  /\ gaPc = "stats"
  /\ \E outcome \in ExecOutcomes(GaRowPool) :
       /\ gaNumstatExec' = outcome
       /\ fileStats' = parseNumstat(safeExec(outcome))
  /\ gaPc' = "diffs"
  /\ UNCHANGED <<gaDiffExec, fileDiffs>>

\* getHunkDiff giving up when the --numstat invocation had failed (a changed
\* GetHunkDiff).
GetHunkDiffNeedsStats ==
  /\ gaPc = "diffs"
  /\ \E outcome \in ExecOutcomes(GaLinePool) :
       /\ gaDiffExec' = outcome
       /\ fileDiffs' = IF gaNumstatExec.failed THEN <<>>
                       ELSE parseDiffText(safeExec(outcome))
  /\ gaPc' = "return"
  /\ UNCHANGED <<gaNumstatExec, fileStats>>

\* fileDiffs = getHunkDiff(dir)
GetHunkDiff ==
  /\ gaPc = "diffs"
  /\ \E outcome \in ExecOutcomes(GaLinePool) :
       /\ gaDiffExec' = outcome
       /\ fileDiffs' = parseDiffText(safeExec(outcome))
  /\ gaPc' = "return"
  /\ UNCHANGED <<gaNumstatExec, fileStats>>

\* return { fileStats, fileDiffs }
ReturnAll ==
  /\ gaPc = "return"
  /\ gaPc' = "done"
  /\ UNCHANGED <<gaNumstatExec, gaDiffExec, fileStats, fileDiffs>>

\* ------------------------------------------------------- specifications
vars == <<defVars, pdVars, hhVars, nsVars, fdVars, adVars, callVars, gaVars, ptVars, totVars>>

\* The variables of a function that is not running.
DefIdle ==
  /\ def = [line |-> 1, endLine |-> 1]
  /\ defHunks = <<>>
  /\ defResult = Null
  /\ defPc = "idle"

PdIdle ==
  /\ lines = <<>>
  /\ currentFile = Null
  /\ hunks = 1
  /\ heap = <<<<>>>>
  /\ files = <<>>
  /\ pdPc = "idle"

HhIdle ==
  /\ hhParts = [pre |-> <<>>, oldStart |-> <<>>, oldCount |-> <<>>, sep |-> <<>>,
                newStart |-> <<>>, newCount |-> <<>>, tail |-> <<>>]
  /\ hhLine = <<>>
  /\ hhResult = Null
  /\ hhPc = "idle"

NsIdle ==
  /\ nsLines = <<>>
  /\ stats = <<>>
  /\ nsPc = "idle"

FdIdle ==
  /\ fdHunks = <<>>
  /\ fdResult = Null
  /\ fdPc = "idle"

AdIdle ==
  /\ adDefs = <<>>
  /\ adFileDiff = Null
  /\ adResult = <<>>
  /\ adPc = "idle"

CallIdle == callLog = <<>>

PtIdle ==
  /\ ptText = <<>>
  /\ ptResult = <<>>
  /\ ptPc = "idle"

TotIdle ==
  /\ totDefs = {}
  /\ totHunks = <<>>
  /\ totDefDiffs = <<>>
  /\ totFileDiff = Null
  /\ totPc = "idle"

GaIdle ==
  /\ gaNumstatExec = NotRun
  /\ gaDiffExec = NotRun
  /\ fileStats = <<>>
  /\ fileDiffs = <<>>
  /\ gaPc = "idle"

\* Calls of calculateDefinitionDiff.
DefDiffInit == DefInit /\ PdIdle /\ HhIdle /\ NsIdle /\ FdIdle /\ AdIdle /\ CallIdle /\ GaIdle /\ PtIdle /\ TotIdle
DefNext == Classify /\ UNCHANGED <<pdVars, hhVars, nsVars, fdVars, adVars, callVars, gaVars, ptVars, totVars>>
SpecDefDiff == DefDiffInit /\ [][DefNext]_vars

\* Calls of calculateDefinitionDiff with hunk lists over DefHunkPool.
DefDiffPoolInit == DefPoolInit /\ PdIdle /\ HhIdle /\ NsIdle /\ FdIdle /\ AdIdle /\ CallIdle /\ GaIdle /\ PtIdle /\ TotIdle
SpecDefPool == DefDiffPoolInit /\ [][DefNext]_vars

\* Calls of parseDiff.
PdNext ==
  \/ DiffGitLine /\ UNCHANGED <<defVars, hhVars, nsVars, fdVars, adVars, callVars, gaVars, ptVars, totVars>>
  \/ BinaryLine /\ UNCHANGED <<defVars, hhVars, nsVars, fdVars, adVars, callVars, gaVars, ptVars, totVars>>
  \/ HunkLine /\ UNCHANGED <<defVars, hhVars, nsVars, fdVars, adVars, callVars, gaVars, ptVars, totVars>>
  \/ OtherLine /\ UNCHANGED <<defVars, hhVars, nsVars, fdVars, adVars, callVars, gaVars, ptVars, totVars>>
  \/ Finish /\ UNCHANGED <<defVars, hhVars, nsVars, fdVars, adVars, callVars, gaVars, ptVars, totVars>>
ParseDiffInit == PdInit /\ DefIdle /\ HhIdle /\ NsIdle /\ FdIdle /\ AdIdle /\ CallIdle /\ GaIdle /\ PtIdle /\ TotIdle
SpecParseDiff == ParseDiffInit /\ [][PdNext]_vars

\* Calls of parseHunkHeader.
HunkHeaderInit == HhInit /\ DefIdle /\ PdIdle /\ NsIdle /\ FdIdle /\ AdIdle /\ CallIdle /\ GaIdle /\ PtIdle /\ TotIdle
HhNext == ParseHunk /\ UNCHANGED <<defVars, pdVars, nsVars, fdVars, adVars, callVars, gaVars, ptVars, totVars>>
SpecHunkHeader == HunkHeaderInit /\ [][HhNext]_vars

\* Calls of parseNumstat.
NsNext ==
  \/ NsBlankLine /\ UNCHANGED <<defVars, pdVars, hhVars, fdVars, adVars, callVars, gaVars, ptVars, totVars>>
  \/ NsShortLine /\ UNCHANGED <<defVars, pdVars, hhVars, fdVars, adVars, callVars, gaVars, ptVars, totVars>>
  \/ NsBinaryRow /\ UNCHANGED <<defVars, pdVars, hhVars, fdVars, adVars, callVars, gaVars, ptVars, totVars>>
  \/ NsNaNRow /\ UNCHANGED <<defVars, pdVars, hhVars, fdVars, adVars, callVars, gaVars, ptVars, totVars>>
  \/ NsZeroRow /\ UNCHANGED <<defVars, pdVars, hhVars, fdVars, adVars, callVars, gaVars, ptVars, totVars>>
  \/ NsSetRow /\ UNCHANGED <<defVars, pdVars, hhVars, fdVars, adVars, callVars, gaVars, ptVars, totVars>>
  \/ NsFinish /\ UNCHANGED <<defVars, pdVars, hhVars, fdVars, adVars, callVars, gaVars, ptVars, totVars>>
NumstatInit == NsInit /\ DefIdle /\ PdIdle /\ HhIdle /\ FdIdle /\ AdIdle /\ CallIdle /\ GaIdle /\ PtIdle /\ TotIdle
SpecNumstat == NumstatInit /\ [][NsNext]_vars

\* Calls of calculateFileDiff.
FileDiffInit == FdInit /\ DefIdle /\ PdIdle /\ HhIdle /\ NsIdle /\ AdIdle /\ CallIdle /\ GaIdle /\ PtIdle /\ TotIdle
FdNext == SumFile /\ UNCHANGED <<defVars, pdVars, hhVars, nsVars, adVars, callVars, gaVars, ptVars, totVars>>
SpecFileDiff == FileDiffInit /\ [][FdNext]_vars

\* Calls of applyDiffToDefinitions.
ApplyDiffInit == AdInit /\ DefIdle /\ PdIdle /\ HhIdle /\ NsIdle /\ FdIdle /\ CallIdle /\ GaIdle /\ PtIdle /\ TotIdle
AdNext == ApplyDiff /\ UNCHANGED <<defVars, pdVars, hhVars, nsVars, fdVars, callVars, gaVars, ptVars, totVars>>
SpecApplyDiff == ApplyDiffInit /\ [][AdNext]_vars

\* Calls of the five functions one after another.
CallsInit == CallInit /\ DefIdle /\ PdIdle /\ HhIdle /\ NsIdle /\ FdIdle /\ AdIdle /\ GaIdle /\ PtIdle /\ TotIdle
CallsNext ==
  \/ CallParseNumstat /\ UNCHANGED <<defVars, pdVars, hhVars, nsVars, fdVars, adVars, gaVars, ptVars, totVars>>
  \/ CallParseDiff /\ UNCHANGED <<defVars, pdVars, hhVars, nsVars, fdVars, adVars, gaVars, ptVars, totVars>>
  \/ CallParseHunkHeader /\ UNCHANGED <<defVars, pdVars, hhVars, nsVars, fdVars, adVars, gaVars, ptVars, totVars>>
  \/ CallCalculateDefinitionDiff /\ UNCHANGED <<defVars, pdVars, hhVars, nsVars, fdVars, adVars, gaVars, ptVars, totVars>>
  \/ CallCalculateFileDiff /\ UNCHANGED <<defVars, pdVars, hhVars, nsVars, fdVars, adVars, gaVars, ptVars, totVars>>
SpecCalls == CallsInit /\ [][CallsNext]_vars

\* Calls of getAllDiffData.
GetAllInit == GaInit /\ DefIdle /\ PdIdle /\ HhIdle /\ NsIdle /\ FdIdle /\ AdIdle /\ CallIdle /\ PtIdle /\ TotIdle
GaNext ==
  \/ GetFileStats /\ UNCHANGED <<defVars, pdVars, hhVars, nsVars, fdVars, adVars, callVars, ptVars, totVars>>
  \/ GetHunkDiff /\ UNCHANGED <<defVars, pdVars, hhVars, nsVars, fdVars, adVars, callVars, ptVars, totVars>>
  \/ ReturnAll /\ UNCHANGED <<defVars, pdVars, hhVars, nsVars, fdVars, adVars, callVars, ptVars, totVars>>
SpecGetAll == GetAllInit /\ [][GaNext]_vars

\* Calls of parseDiff on whole texts.
ParseTextInit == PtInit /\ DefIdle /\ PdIdle /\ HhIdle /\ NsIdle /\ FdIdle /\ AdIdle /\ CallIdle /\ GaIdle /\ TotIdle
PtNext == ParseText /\ UNCHANGED <<defVars, pdVars, hhVars, nsVars, fdVars, adVars, callVars, gaVars, totVars>>
SpecParseText == ParseTextInit /\ [][PtNext]_vars

\* calculateDefinitionDiff for each definition of a file and
\* calculateFileDiff, on the same hunks.
TotalsInit == TotInit /\ DefIdle /\ PdIdle /\ HhIdle /\ NsIdle /\ FdIdle /\ AdIdle /\ CallIdle /\ GaIdle /\ PtIdle
TotNext ==
  \/ DefinitionDiffs /\ UNCHANGED <<defVars, pdVars, hhVars, nsVars, fdVars, adVars, callVars, gaVars, ptVars>>
  \/ FileDiffTotals /\ UNCHANGED <<defVars, pdVars, hhVars, nsVars, fdVars, adVars, callVars, gaVars, ptVars>>
SpecTotals == TotalsInit /\ [][TotNext]_vars

\* ------------------------------------------------------------------------
\* Claims about calculateDefinitionDiff (checked under SpecDefDiff)
\* ------------------------------------------------------------------------
DefDone == defPc = "done"

\* The lines of a hunk's new span and of a definition, as sets.
NewSpan(hunk) == hunk.newStart .. (hunk.newStart + hunk.newCount - 1)
DefSpan(d) == d.line .. d.endLine

\* The sum of a sequence of numbers.
RECURSIVE SumSeq(_)
SumSeq(s) == IF s = <<>> THEN 0 ELSE s[1] + SumSeq(Tail(s))

\* Sum over all hunks of the size of (new span \cap definition span).
OverlapTotal(d, hs) ==
  SumSeq([i \in 1..Len(hs) |-> Cardinality(NewSpan(hs[i]) \cap DefSpan(d))])

\* The touch test of the deletion accounting.
Touches(d, hunk) ==
  hunk.newStart <= d.endLine /\ hunk.newStart + hunk.newCount - 1 >= d.line

\* Sum of the full oldCount of the hunks with oldCount > 0 that touch d.
TouchTotal(d, hs) ==
  SumSeq([i \in 1..Len(hs) |->
            IF hs[i].oldCount > 0 /\ Touches(d, hs[i]) THEN hs[i].oldCount ELSE 0])

\* C1: `added` is the sum over all hunks of the number of lines the hunk's
\* new span [newStart, newStart+newCount-1] shares with the definition span
\* [line, endLine]; a hunk whose new span does not intersect the definition
\* (every hunk with newCount = 0 among them) contributes 0.
C1_AddedIsOverlapSum ==
  DefDone =>
    /\ defResult # Null => defResult[1].added = OverlapTotal(def, defHunks)
    /\ defResult = Null => OverlapTotal(def, defHunks) = 0
    /\ \A i \in 1..Len(defHunks) :
         /\ AddedLines(def, defHunks[i])
              = Cardinality(NewSpan(defHunks[i]) \cap DefSpan(def))
         /\ defHunks[i].newCount = 0 => AddedLines(def, defHunks[i]) = 0

\* C1 witness: two hunks, one reaching beyond the definition on a side (only
\* part of its new span counts) and one with newCount = 0.
C1_Witness ==
  /\ DefDone /\ defResult # Null /\ Len(defHunks) = 2
  /\ \E i \in 1..2 :
       LET n == Cardinality(NewSpan(defHunks[i]) \cap DefSpan(def))
       IN  0 < n /\ n < defHunks[i].newCount /\ defResult[1].added = n
  /\ \E j \in 1..2 : defHunks[j].newCount = 0

\* C2: `deleted` is the sum of the full oldCount of every hunk with
\* oldCount > 0 whose new span touches the definition, never a share of it;
\* the same hunk gives its whole oldCount to every definition it touches.
C2_DeletedIsFullOldCount ==
  DefDone =>
    /\ defResult # Null => defResult[1].deleted = TouchTotal(def, defHunks)
    /\ defResult = Null => TouchTotal(def, defHunks) = 0
    /\ \A i \in 1..Len(defHunks) : \A d2 \in DefSet :
         (defHunks[i].oldCount > 0 /\ Touches(d2, defHunks[i]))
           => DeletedLines(d2, defHunks[i]) = defHunks[i].oldCount

\* C2 witness: `deleted` exceeds the definition's line count, and one hunk
\* touches this definition and the one right after it.
C2_Witness ==
  /\ DefDone /\ defResult # Null
  /\ defResult[1].deleted > def.endLine - def.line + 1
  /\ \E i \in 1..Len(defHunks) : \E d2 \in DefSet :
       /\ d2.line = def.endLine + 1
       /\ defHunks[i].oldCount > 0
       /\ Touches(def, defHunks[i]) /\ Touches(d2, defHunks[i])

\* C3: a result's status is "added" exactly when added >= endLine-line+1 and
\* deleted = 0, and "updated" otherwise; its added and deleted are the totals.
C3_StatusRule ==
  (DefDone /\ defResult # Null) =>
    LET r == defResult[1]
    IN  /\ r.status \in {"added", "updated"}
        /\ r.status = "added"
             <=> (r.added >= def.endLine - def.line + 1 /\ r.deleted = 0)
        /\ r.added = OverlapTotal(def, defHunks)
        /\ r.deleted = TouchTotal(def, defHunks)

\* C3 witness: a hunk covers exactly the definition and deletes nothing, so
\* the status is "added" with added equal to the line count.
C3_Witness ==
  /\ DefDone /\ defResult # Null
  /\ defResult[1].status = "added"
  /\ defResult[1].added = def.endLine - def.line + 1
  /\ def.endLine > def.line

\* C4 (as claimed): status "added" only if every line of the definition lies
\* in the new span of some hunk and nothing was deleted.
C4_AddedOnlyIfAllLinesNew ==
  (DefDone /\ defResult # Null /\ defResult[1].status = "added") =>
    /\ \A l \in DefSpan(def) :
         \E i \in 1..Len(defHunks) : l \in NewSpan(defHunks[i])
    /\ defResult[1].deleted = 0

\* C5: the result is null exactly when both totals are zero; it is null for
\* an empty hunk list and when every hunk's new span ends before `line` or
\* starts after `endLine`; a non-null result has added + deleted > 0.
C5_NullIffNoChange ==
  DefDone =>
    /\ defResult = Null
         <=> (OverlapTotal(def, defHunks) = 0 /\ TouchTotal(def, defHunks) = 0)
    /\ defHunks = <<>> => defResult = Null
    /\ (\A i \in 1..Len(defHunks) :
          \/ defHunks[i].newStart + defHunks[i].newCount - 1 < def.line
          \/ defHunks[i].newStart > def.endLine)
         => defResult = Null
    /\ defResult # Null => defResult[1].added + defResult[1].deleted > 0

\* C5 witness: null although the list holds a hunk before the definition
\* and a hunk after it, both with lines to add and to delete.
C5_Witness ==
  /\ DefDone /\ defResult = Null /\ Len(defHunks) = 2
  /\ defHunks[1].newStart + defHunks[1].newCount - 1 < def.line
  /\ defHunks[2].newStart > def.endLine
  /\ \A i \in 1..2 : defHunks[i].newCount > 0 /\ defHunks[i].oldCount > 0

\* ------------------------------------------------------------------------
\* Claims about parseDiff (checked under SpecParseDiff)
\* ------------------------------------------------------------------------
\* The structure of the input read so far, stated on `lines` alone.
IsGit(n) == lines[n] \in GitLines
IsBinary(n) == lines[n] \in BinaryLines

\* A line that is a hunk header parseHunkHeader accepts.
IsValidHunk(n) == lines[n] \in AtLines /\ ParsedHunk[lines[n]] # Null

\* The section line n belongs to: the number of the most recent
\* `diff --git ` line at or before n, 0 before the first one.
SectionStart(n) ==
  LET hs == {h \in 1..n : IsGit(h)}
  IN  IF hs = {} THEN 0 ELSE CHOOSE h \in hs : \A k \in hs : h >= k

SectionLines(h) == {n \in 1..Len(lines) : SectionStart(n) = h}

\* The path a `diff --git ` line names: Null when it cannot be parsed.
PathNamed ==
  [l \in GitLines |->
     IF GitHeaderMatch(l) = Null THEN Null
     ELSE Some(normalizePath(GitHeaderMatch(l)[1]))]
HeaderPath(h) == PathNamed[lines[h]]

HasBinary(h) == \E n \in SectionLines(h) : IsBinary(n)
ValidHunkLines(h) == {n \in SectionLines(h) : IsValidHunk(n)}

\* The section is over: another file header follows it or the input ended.
Closed(h) == pdPc = "done" \/ \E g \in (h + 1)..Len(lines) : IsGit(g)

\* The section that starts at line h is one parseDiff has to store.
Stored(h) ==
  /\ h \in 1..Len(lines) /\ IsGit(h) /\ Closed(h)
  /\ Truthy(HeaderPath(h))
  /\ ~HasBinary(h)
  /\ ValidHunkLines(h) # {}

\* The input lines the hunks of array a were parsed from.
Origins(a) == {heap[a][k].at : k \in 1..Len(heap[a])}
AllOrigins == UNION {Origins(a) : a \in 1..Len(heap)}
EntryOrigins(i) == Origins(files[i].value.hunks)

PdDone == pdPc = "done"

\* C6: every FileDiff of the mapping has a non-empty hunk list and a path
\* equal to its key, and every key is the path of a section with at least
\* one parsed hunk header: a section without one adds no entry.
C6_NoEmptyFileDiff ==
  \A i \in 1..Len(files) :
    /\ files[i].value.path = files[i].key
    /\ Len(heap[files[i].value.hunks]) > 0
    /\ Len(Result[i].hunks) > 0
    /\ \E h \in 1..Len(lines) :
         /\ IsGit(h) /\ HeaderPath(h) = Some(files[i].key)
         /\ ValidHunkLines(h) # {}
         /\ EntryOrigins(i) \subseteq SectionLines(h)

\* C6 witness: a section for one path holds only a malformed `@@` line, the
\* next section has a hunk, and the result holds the second file alone.
C6_Witness ==
  /\ PdDone /\ Len(files) = 1
  /\ \E h \in 1..Len(lines) :
       /\ IsGit(h) /\ Truthy(HeaderPath(h))
       /\ HeaderPath(h) # Some(files[1].key)
       /\ ValidHunkLines(h) = {}
       /\ \E n \in SectionLines(h) : lines[n] \in AtLines

\* C7: each parsed hunk header is stored in exactly one hunk array, and that
\* array belongs to the file named by the most recent `diff --git ` line
\* before it; an array holds the hunks of one section in input order, and no
\* two files, nor a file and the section being read, share an array.
C7_HunksBelongToTheirSection ==
  /\ \A a \in 1..Len(heap) : \A k \in 1..Len(heap[a]) :
       LET el == heap[a][k]
           h  == SectionStart(el.at)
       IN  /\ IsValidHunk(el.at) /\ el.hunk = ParsedHunk[lines[el.at]][1]
           /\ h > 0 /\ Truthy(HeaderPath(h))
           /\ k > 1 => /\ heap[a][k - 1].at < el.at
                       /\ SectionStart(heap[a][k - 1].at) = h
           /\ \A a2 \in 1..Len(heap) : \A k2 \in 1..Len(heap[a2]) :
                heap[a2][k2].at = el.at => (a2 = a /\ k2 = k)
           /\ \A i \in 1..Len(files) :
                files[i].value.hunks = a => Some(files[i].key) = HeaderPath(h)
           /\ (a = hunks /\ pdPc = "loop") => currentFile = HeaderPath(h)
  /\ \A i \in 1..Len(files) :
       /\ \E h \in 1..Len(lines) : EntryOrigins(i) = ValidHunkLines(h)
       /\ pdPc = "loop" => files[i].value.hunks # hunks
       /\ \A j \in 1..Len(files) :
            i # j => files[i].value.hunks # files[j].value.hunks

\* C7 witness: two files; the first has two different hunks, in input order.
C7_Witness ==
  /\ PdDone /\ Len(files) = 2
  /\ Len(Result[1].hunks) = 2 /\ Len(Result[2].hunks) = 1
  /\ Result[1].hunks[1] # Result[1].hunks[2]
  /\ Result[1].key # Result[2].key

\* The section being read holds a `Binary files ` line.
BinarySeen ==
  \E n \in 1..Len(lines) : IsBinary(n) /\ SectionStart(n) = SectionStart(Len(lines))

\* C8: after a `Binary files ` line no path is active and no hunk is kept
\* until the next `diff --git ` line, no entry holds a hunk of a section with
\* such a line, and reading the line changes no entry stored before.
C8_BinaryAbortsSection ==
  /\ [](/\ (pdPc = "loop" /\ BinarySeen) => (currentFile = Null /\ heap[hunks] = <<>>)
        /\ \A i \in 1..Len(files) : \A n \in EntryOrigins(i) : ~HasBinary(SectionStart(n)))
  /\ [][(Len(lines') > Len(lines) /\ lines'[Len(lines')] \in BinaryLines)
          => /\ files' = files
             /\ \A i \in 1..Len(files) :
                  heap'[files[i].value.hunks] = heap[files[i].value.hunks]]_vars

\* C8 witness: an entry stored for an earlier section is still there after a
\* later section with a hunk header and then a `Binary files ` line.
C8_Witness ==
  /\ PdDone /\ Len(files) = 1 /\ Len(lines) = 5
  /\ IsBinary(5) /\ IsValidHunk(4) /\ IsGit(3)
  /\ Truthy(HeaderPath(3)) /\ HeaderPath(3) # Some(files[1].key)
  /\ EntryOrigins(1) = {2}

\* C9: a hunk header read while no path is active (before the first
\* `diff --git ` line, or after one that names no path) is stored nowhere;
\* a `diff --git ` line that cannot be parsed still stores the section
\* before it, with that section's hunks only.
C9_NoPathNoAttribution ==
  /\ \A n \in 1..Len(lines) :
       (IsValidHunk(n)
          /\ (SectionStart(n) = 0 \/ ~Truthy(HeaderPath(SectionStart(n)))))
         => n \notin AllOrigins
  /\ \A u \in 2..Len(lines) :
       (IsGit(u) /\ HeaderPath(u) = Null /\ Stored(SectionStart(u - 1)))
         => LET g == SectionStart(u - 1)
            IN  \E i \in 1..Len(files) :
                  /\ Some(files[i].key) = HeaderPath(g)
                  /\ (\A h \in (g + 1)..Len(lines) :
                        ~(Stored(h) /\ HeaderPath(h) = HeaderPath(g)))
                       => EntryOrigins(i) = ValidHunkLines(g)

\* C9 witness: a hunk header before any file header, a section with a hunk,
\* then a `diff --git ` line without a path followed by a hunk header; the
\* result is the one file with its one hunk.
C9_Witness ==
  /\ PdDone /\ Len(lines) = 5 /\ Len(files) = 1
  /\ IsValidHunk(1) /\ IsGit(2) /\ IsValidHunk(3)
  /\ IsGit(4) /\ HeaderPath(4) = Null /\ IsValidHunk(5)
  /\ EntryOrigins(1) = {3}

\* The first `diff --git ` line that names path p, and the first stored
\* section with path p.
FirstHeader(p) ==
  CHOOSE h \in 1..Len(lines) :
    /\ IsGit(h) /\ HeaderPath(h) = Some(p)
    /\ \A g \in 1..(h - 1) : ~(IsGit(g) /\ HeaderPath(g) = Some(p))
FirstStored(p) ==
  CHOOSE h \in 1..Len(lines) :
    /\ Stored(h) /\ HeaderPath(h) = Some(p)
    /\ \A g \in 1..(h - 1) : ~(Stored(g) /\ HeaderPath(g) = Some(p))

\* C10 (as claimed): the entries of the result are in the order in which
\* each path's file header first appears in the input.
C10_OrderOfFirstHeader ==
  PdDone =>
    \A i \in 1..Len(files) : \A j \in 1..Len(files) :
      i < j => FirstHeader(files[i].key) < FirstHeader(files[j].key)

\* C10 (amended): the entries are in the order in which each path's first
\* stored section (a path, a parsed hunk header, no `Binary files ` line)
\* starts; when no two file headers name the same path, that is the order of
\* the file headers.
C10_OrderOfFirstStoredSection ==
  /\ \A i \in 1..Len(files) :
       \E h \in 1..Len(lines) : Stored(h) /\ HeaderPath(h) = Some(files[i].key)
  /\ \A i \in 1..Len(files) : \A j \in 1..Len(files) :
       i < j => FirstStored(files[i].key) < FirstStored(files[j].key)
  /\ (\A g \in 1..Len(lines) : \A h \in 1..Len(lines) :
        (IsGit(g) /\ IsGit(h) /\ g # h /\ HeaderPath(g) # Null)
          => HeaderPath(g) # HeaderPath(h))
       => \A i \in 1..Len(files) : \A j \in 1..Len(files) :
            i < j => FirstHeader(files[i].key) < FirstHeader(files[j].key)

\* C10 witness: the path of the first file header comes second in the
\* result, because its first section has no hunk and its second one has.
C10_Witness ==
  /\ PdDone /\ Len(files) = 2
  /\ FirstHeader(files[2].key) < FirstHeader(files[1].key)
  /\ FirstStored(files[1].key) < FirstStored(files[2].key)

\* A `@@` line that parseHunkHeader rejects.
IsMalformedHunk(n) == lines[n] \in AtLines /\ ParsedHunk[lines[n]] = Null

\* The valid hunk headers among the lines g+1..e, and a `Binary files ` line
\* among them.
ValidHunksIn(g, e) == {n \in (g + 1)..e : IsValidHunk(n)}
BinaryIn(g, e) == \E n \in (g + 1)..e : IsBinary(n)

\* The section made of the header at line g and the lines up to e, when it
\* has a path, a valid hunk header and no `Binary files ` line, has an entry
\* with exactly its valid hunk headers.
RecordedIn(g, e) ==
  (g > 0 /\ Truthy(HeaderPath(g)) /\ ~BinaryIn(g, e) /\ ValidHunksIn(g, e) # {})
    => \E i \in 1..Len(files) :
         /\ Some(files[i].key) = HeaderPath(g)
         /\ EntryOrigins(i) = ValidHunksIn(g, e)

\* C11: a `@@` line that fails to parse, read while a path is active, changes
\* neither the active path nor the hunks accumulated so far nor the entries
\* stored; the array of the section being read holds every valid hunk header
\* of the section, those before and those after a malformed one, and so does
\* the entry stored when the section ends, at the next file header or at the
\* end of the input.
C11_MalformedHunkSkipped ==
  /\ [](LET e == Len(lines)
            h == SectionStart(e)
        IN  /\ (pdPc = "loop" /\ h > 0 /\ Truthy(HeaderPath(h)) /\ ~BinaryIn(h, e))
                 => /\ currentFile = HeaderPath(h)
                    /\ Origins(hunks) = ValidHunksIn(h, e)
            /\ PdDone => RecordedIn(h, e)
            /\ (pdPc = "loop" /\ e > 1 /\ IsGit(e))
                 => RecordedIn(SectionStart(e - 1), e - 1))
  /\ [][(/\ Len(lines') > Len(lines)
         /\ lines'[Len(lines')] \in AtLines
         /\ ParsedHunk[lines'[Len(lines')]] = Null
         /\ Truthy(currentFile))
          => /\ currentFile' = currentFile
             /\ hunks' = hunks
             /\ heap' = heap
             /\ files' = files]_vars

\* C11 witness: one section with a valid hunk header, a malformed `@@` line
\* and another valid hunk header; the entry holds both valid ones.
C11_Witness ==
  /\ PdDone /\ Len(lines) = 4 /\ Len(files) = 1
  /\ IsGit(1) /\ IsValidHunk(2) /\ IsMalformedHunk(3) /\ IsValidHunk(4)
  /\ EntryOrigins(1) = {2, 4}
  /\ Len(Result[1].hunks) = 2

\* ------------------------------------------------------------------------
\* Claims about parseHunkHeader (checked under SpecHunkHeader)
\* ------------------------------------------------------------------------
HhDone == hhPc = "done"

\* A count as the grammar writes it: omitted, or a comma and digits.
IsCountText(c) == c = <<>> \/ (Len(c) >= 2 /\ c[1] = ",")

\* `@@ -<oldStart>[,<oldCount>] +<newStart>[,<newCount>] @@` written from the
\* pieces p, whatever stands before and after it.
WellFormed(p) ==
  /\ p.oldStart # <<>> /\ p.newStart # <<>>
  /\ IsCountText(p.oldCount) /\ IsCountText(p.newCount)
  /\ p.sep = <<" ", "+">>
  /\ StartsWith(p.tail, <<" ", "@", "@">>)

\* The number a string of decimal digits denotes, read from the left.
RECURSIVE Pow10(_)
Pow10(n) == IF n = 0 THEN 1 ELSE 10 * Pow10(n - 1)
RECURSIVE DecimalValue(_)
DecimalValue(ds) ==
  IF ds = <<>> THEN 0
  ELSE DigitVal(ds[1]) * Pow10(Len(ds) - 1) + DecimalValue(Tail(ds))

\* C12 (as claimed): parseHunkHeader returns a hunk exactly for the lines
\* that begin with the hunk grammar, and null for every other line, among
\* them the lines that hold the pattern after leading text.
C12_AnchoredAtLineStart ==
  HhDone => (hhResult # Null <=> (hhParts.pre = <<>> /\ WellFormed(hhParts)))

\* What the code does: a hunk exactly when the pattern occurs somewhere in
\* the line.
C12_MatchesAnywhere ==
  HhDone => (hhResult # Null <=> WellFormed(hhParts))

\* A line with the pattern after leading text for which a hunk came back.
C12_Divergence ==
  /\ HhDone /\ hhParts.pre # <<>> /\ WellFormed(hhParts)
  /\ hhResult # Null

\* C13: for a line that begins with the hunk grammar the result has the two
\* start numbers as written, a count of 1 where the count is omitted and the
\* written number, 0 included, where it is given; the four fields are
\* natural numbers.
C13_CountDefaultsToOne ==
  (HhDone /\ hhParts.pre = <<>> /\ WellFormed(hhParts)) =>
    /\ hhResult # Null
    /\ hhResult[1].oldStart = DecimalValue(hhParts.oldStart)
    /\ hhResult[1].newStart = DecimalValue(hhParts.newStart)
    /\ hhResult[1].oldCount = IF hhParts.oldCount = <<>> THEN 1
                              ELSE DecimalValue(Tail(hhParts.oldCount))
    /\ hhResult[1].newCount = IF hhParts.newCount = <<>> THEN 1
                              ELSE DecimalValue(Tail(hhParts.newCount))
    /\ \A f \in {"oldStart", "oldCount", "newStart", "newCount"} :
         hhResult[1][f] \in Nat

\* C13 witness: a header with the old count omitted and the new count
\* written as 0.
C13_Witness ==
  /\ HhDone /\ hhParts.pre = <<>> /\ WellFormed(hhParts)
  /\ hhParts.oldCount = <<>> /\ hhParts.newCount = <<",", "0">>
  /\ hhResult # Null
  /\ hhResult[1].oldCount = 1 /\ hhResult[1].newCount = 0

\* ------------------------------------------------------------------------
\* Claims about parseNumstat (checked under SpecNumstat)
\* ------------------------------------------------------------------------
NsDone == nsPc = "done"

\* The fields a line of the pool is written from.
Written == [t \in NsPool |-> CHOOSE f \in NsRowFields : Join(f, TAB) = t]

\* An unsigned decimal integer.
IsDecimal(f) == f # <<>> /\ \A k \in 1..Len(f) : f[k] \in Digits

\* What the description of the format says of each line of the pool:
\*   blank    no character but white space
\*   short    fewer than 3 tab-delimited fields
\*   marker   a row with a count field that is the literal `-`
\*   unparsed a row with a count field parseInt makes no number of
\*   zero     a row whose two counts parse to 0
\*   kept     a row none of the above applies to
\*   decimal  a row whose counts are decimal integers, not both zero
\*   key      the normalized path of a row
NsRowFacts ==
  [t \in NsPool |->
     LET f     == Written[t]
         row   == Len(f) >= 3 /\ ~IsBlank(t)
         a     == IF row THEN ParseInt(f[1]) ELSE Null
         d     == IF row THEN ParseInt(f[2]) ELSE Null
         mark  == row /\ (f[1] = <<"-">> \/ f[2] = <<"-">>)
         unp   == row /\ (a = Null \/ d = Null)
         zero  == row /\ ~unp /\ a[1] = 0 /\ d[1] = 0
         dec   == row /\ IsDecimal(f[1]) /\ IsDecimal(f[2])
                      /\ ~(DecimalValue(f[1]) = 0 /\ DecimalValue(f[2]) = 0)
     IN  [blank    |-> IsBlank(t),
          short    |-> ~IsBlank(t) /\ Len(f) < 3,
          marker   |-> mark,
          unparsed |-> unp,
          zero     |-> zero,
          kept     |-> row /\ ~mark /\ ~unp /\ ~zero,
          decimal  |-> dec,
          key      |-> IF row THEN normalizePath(Join(SubSeq(f, 3, Len(f)), TAB))
                       ELSE <<>>,
          counts   |-> IF dec THEN [added   |-> DecimalValue(f[1]),
                                    deleted |-> DecimalValue(f[2])]
                       ELSE IF row /\ ~unp THEN [added |-> a[1], deleted |-> d[1]]
                       ELSE [added |-> 0, deleted |-> 0]]]
NsFact(n) == NsRowFacts[nsLines[n]]

\* The line read by the step, when the step reads one.
NsReads == Len(nsLines') > Len(nsLines)
NsLineRead == NsRowFacts[nsLines'[Len(nsLines')]]

\* C14: no path has two entries; every row whose counts are decimal
\* integers, not both zero, has an entry under its normalized path, and the
\* entry holds the row's counts unless a later kept row has the same
\* normalized path: the last one wins.
C14_ValidRowsStored ==
  /\ \A i \in 1..Len(stats) : \A j \in 1..Len(stats) :
       i # j => stats[i].key # stats[j].key
  /\ \A n \in 1..Len(nsLines) :
       NsFact(n).decimal =>
         \E i \in 1..Len(stats) :
           /\ stats[i].key = NsFact(n).key
           /\ (\A k \in (n + 1)..Len(nsLines) :
                 ~(NsFact(k).kept /\ NsFact(k).key = NsFact(n).key))
                => stats[i].value = NsFact(n).counts

\* C14 witness: two rows written with different paths that normalize to the
\* same one and with different counts; the one entry holds the second row's.
C14_Witness ==
  /\ NsDone /\ Len(nsLines) = 2 /\ Len(stats) = 1
  /\ NsFact(1).decimal /\ NsFact(2).decimal
  /\ Written[nsLines[1]][3] # Written[nsLines[2]][3]
  /\ NsFact(1).key = NsFact(2).key
  /\ NsFact(1).counts # NsFact(2).counts
  /\ stats[1].value = NsFact(2).counts

\* C15 (as claimed): every entry has added >= 0 and deleted >= 0.
C15_CountsNonNegative ==
  \A i \in 1..Len(stats) :
    stats[i].value.added >= 0 /\ stats[i].value.deleted >= 0

\* C16: no entry has both counts 0; every entry holds the counts of a row
\* whose two count fields parse; and a row with a count field that fails to
\* parse, or whose counts are both 0, leaves the mapping as it was.
C16_NoZeroNoUnparsedEntry ==
  /\ [](\A i \in 1..Len(stats) :
          /\ ~(stats[i].value.added = 0 /\ stats[i].value.deleted = 0)
          /\ \E n \in 1..Len(nsLines) :
               /\ NsFact(n).kept
               /\ NsFact(n).key = stats[i].key
               /\ NsFact(n).counts = stats[i].value)
  /\ [][(NsReads /\ (NsLineRead.unparsed \/ NsLineRead.zero))
          => stats' = stats]_vars

\* C16 witness: a row with a count that does not parse, a row with both
\* counts 0 and a kept row for another path; the result holds the last only.
C16_Witness ==
  /\ NsDone /\ Len(nsLines) = 3 /\ Len(stats) = 1
  /\ NsFact(1).unparsed /\ ~NsFact(1).marker
  /\ NsFact(2).zero
  /\ NsFact(3).kept /\ NsFact(3).key # NsFact(1).key
  /\ NsFact(1).key = NsFact(2).key
  /\ stats[1].key = NsFact(3).key

\* The input without the rows that carry the `-` marker, and without the
\* blank and the short lines.
NotMarker(l) == ~NsRowFacts[l].marker
NotBlankNorShort(l) == ~NsRowFacts[l].blank /\ ~NsRowFacts[l].short

\* C17: a row with a count field that is the literal `-` leaves the mapping
\* as it was, and the result is the result for the input without such rows.
C17_BinaryRowsSkipped ==
  /\ [](stats = parseNumstat(SelectSeq(nsLines, NotMarker)))
  /\ [][(NsReads /\ NsLineRead.marker) => stats' = stats]_vars

\* C17 witness: a kept row, a `-` row for the same path and a kept row for
\* another path; both kept rows are in the result.
C17_Witness ==
  /\ NsDone /\ Len(nsLines) = 3 /\ Len(stats) = 2
  /\ NsFact(1).kept /\ NsFact(2).marker /\ NsFact(3).kept
  /\ NsFact(2).key = NsFact(1).key
  /\ stats[1].key = NsFact(1).key /\ stats[1].value = NsFact(1).counts
  /\ stats[2].key = NsFact(3).key

\* C18: a blank line and a line with fewer than 3 fields leave the mapping
\* as it was, the result is the result for the input without such lines, and
\* an input of blank lines only gives the empty mapping.
C18_BlankAndShortLinesSkipped ==
  /\ [](/\ stats = parseNumstat(SelectSeq(nsLines, NotBlankNorShort))
        /\ (\A n \in 1..Len(nsLines) : NsFact(n).blank) => stats = <<>>)
  /\ [][(NsReads /\ (NsLineRead.blank \/ NsLineRead.short))
          => stats' = stats]_vars

\* C18 witness: a line with two fields between two kept rows; both rows are
\* in the result.
C18_Witness ==
  /\ NsDone /\ Len(nsLines) = 3 /\ Len(stats) = 2
  /\ NsFact(1).kept /\ NsFact(2).short /\ NsFact(3).kept
  /\ stats[1].value = NsFact(1).counts
  /\ stats[2].value = NsFact(3).counts

\* ------------------------------------------------------------------------
\* Claims about calculateFileDiff (checked under SpecFileDiff)
\* ------------------------------------------------------------------------
FdDone == fdPc = "done"

NewCountTotal(hs) == SumSeq([k \in 1..Len(hs) |-> hs[k].newCount])
OldCountTotal(hs) == SumSeq([k \in 1..Len(hs) |-> hs[k].oldCount])

\* C19: calculateFileDiff returns null exactly when the hunk list is empty
\* or the newCounts and the oldCounts both sum to 0, and otherwise the sum
\* of the newCounts as added and the sum of the oldCounts as deleted.
C19_FileTotals ==
  FdDone =>
    /\ fdResult = Null <=>
         (fdHunks = <<>>
            \/ (NewCountTotal(fdHunks) = 0 /\ OldCountTotal(fdHunks) = 0))
    /\ fdResult # Null =>
         fdResult[1] = [added   |-> NewCountTotal(fdHunks),
                        deleted |-> OldCountTotal(fdHunks)]

\* C19 witness: two hunks that both add lines, only one of which deletes;
\* the result holds both sums.
C19_Witness ==
  /\ FdDone /\ Len(fdHunks) = 2 /\ fdResult # Null
  /\ fdHunks[1].newCount > 0 /\ fdHunks[2].newCount > 0
  /\ fdHunks[1].oldCount > 0 /\ fdHunks[2].oldCount = 0
  /\ fdResult[1].added = fdHunks[1].newCount + fdHunks[2].newCount
  /\ fdResult[1].deleted = fdHunks[1].oldCount

\* ------------------------------------------------------------------------
\* Claims about applyDiffToDefinitions (checked under SpecApplyDiff)
\* ------------------------------------------------------------------------
AdDone == adPc = "done"

\* The call was given a FileDiff with at least one hunk.
AdHasHunks == adFileDiff # Null /\ adFileDiff[1].hunks # <<>>

\* C20: the list returned is as long as the input; with a FileDiff that has
\* hunks, element i is definition i with `diff` set to
\* calculateDefinitionDiff(definition i, hunks) when that is not null and
\* definition i as it was otherwise, and it is what the call returns for
\* definition i alone; without a FileDiff or without hunks the list is the
\* input; the call changes neither the definitions nor the FileDiff.
C20_PerDefinitionDiff ==
  /\ [](AdDone =>
          /\ Len(adResult) = Len(adDefs)
          /\ ~AdHasHunks => adResult = adDefs
          /\ AdHasHunks =>
               \A i \in 1..Len(adDefs) :
                 LET diff == calculateDefinitionDiff(adDefs[i], adFileDiff[1].hunks)
                 IN  /\ adResult[i].line = adDefs[i].line
                     /\ adResult[i].endLine = adDefs[i].endLine
                     /\ adResult[i].diff = IF diff # Null THEN diff ELSE adDefs[i].diff
                     /\ adResult[i] = applyDiffToDefinitions(<<adDefs[i]>>, adFileDiff)[1])
  /\ [][adDefs' = adDefs /\ adFileDiff' = adFileDiff]_vars

\* C20 witness: two definitions that carry a diff from before; the hunks
\* touch the first, which gets the new diff, and not the second, which is
\* returned as it was.
C20_Witness ==
  /\ AdDone /\ AdHasHunks /\ Len(adDefs) = 2
  /\ adDefs[1].diff = Some(StaleDiff) /\ adDefs[2].diff = Some(StaleDiff)
  /\ calculateDefinitionDiff(adDefs[1], adFileDiff[1].hunks) # Null
  /\ adResult[1].diff # adDefs[1].diff
  /\ adResult[2] = adDefs[2]

GaDone == gaPc = "done"

\* C22: no exception leaves getAllDiffData; a mapping whose git invocation
\* failed is empty; a mapping whose invocation succeeded is what its parser
\* makes of that invocation's output, whether or not the other invocation
\* failed; and getting the hunk diff leaves fileStats as it was.
C22_FailureIsolated ==
  /\ [](/\ gaPc # "thrown"
        /\ gaPc \in {"diffs", "return", "done"} =>
             fileStats = IF gaNumstatExec.failed THEN <<>>
                         ELSE parseNumstat(gaNumstatExec.text)
        /\ gaPc \in {"return", "done"} =>
             fileDiffs = IF gaDiffExec.failed THEN <<>>
                         ELSE parseDiffText(gaDiffExec.text))
  /\ [][gaPc = "diffs" => fileStats' = fileStats]_vars

\* C22 witness: the --numstat invocation failed and the other one did not;
\* fileStats is empty and fileDiffs has an entry.
C22_Witness ==
  /\ GaDone
  /\ gaNumstatExec.failed /\ ~gaDiffExec.failed
  /\ fileStats = <<>> /\ Len(fileDiffs) > 0

\* C23: no key of fileStats or fileDiffs, and no path of a FileDiff, holds
\* a backslash; each key of fileStats is the normalized path of a row of the
\* output.
C23_NoBackslashInKeys ==
  /\ \A i \in 1..Len(fileStats) :
       /\ \A k \in 1..Len(fileStats[i].key) : fileStats[i].key[k] # BACKSLASH
       /\ \E n \in 1..Len(gaNumstatExec.text) :
            NsRowFacts[gaNumstatExec.text[n]].key = fileStats[i].key
  /\ \A i \in 1..Len(fileDiffs) :
       /\ \A k \in 1..Len(fileDiffs[i].key) : fileDiffs[i].key[k] # BACKSLASH
       /\ fileDiffs[i].path = fileDiffs[i].key

\* C23 witness: a numstat row and a file header for the path d\e, and a
\* quoted path; the keys are d/e and the path without its quotes.
C23_Witness ==
  /\ GaDone
  /\ \E i \in 1..Len(fileStats) : fileStats[i].key = <<"d", "/", "e">>
  /\ \E i \in 1..Len(fileStats) : fileStats[i].key = <<"a">>
  /\ \E n \in 1..Len(gaNumstatExec.text) :
       Written[gaNumstatExec.text[n]][3] = <<"d", BACKSLASH, "e">>
  /\ \E i \in 1..Len(fileDiffs) : fileDiffs[i].key = <<"d", "/", "e">>

\* ------------------------------------------------------------------------
\* Claims about parseDiff on whole texts (checked under SpecParseText)
\* ------------------------------------------------------------------------
PtDone == ptPc = "done"

\* The structure of the text, stated on its lines: file headers, the last
\* line of the section a header starts, the section's valid hunk headers and
\* whether it holds a `Binary files ` line.
PtIsGit(n) == StartsWith(ptText[n], DIFF_GIT)
PtSectionEnd(h) ==
  LET next == {g \in (h + 1)..Len(ptText) : PtIsGit(g)}
  IN  IF next = {} THEN Len(ptText)
      ELSE (CHOOSE g \in next : \A k \in next : g <= k) - 1
PtHunkLines(h) ==
  {n \in (h + 1)..PtSectionEnd(h) :
     StartsWith(ptText[n], AT_AT) /\ TextHunkTable[ptText[n]] # Null}
PtHasBinary(h) ==
  \E n \in (h + 1)..PtSectionEnd(h) : StartsWith(ptText[n], BINARY_FILES)

\* The path the header pattern takes from a line of the pool, normalized;
\* Null when the pattern does not match.
PtPathTable ==
  [l \in TextPool |->
     IF TextGitTable[l] = Null THEN Null ELSE Some(normalizePath(TextGitTable[l][1]))]
PtPath(h) == PtPathTable[ptText[h]]

\* A section with a header that yields a path, a valid hunk header and no
\* `Binary files ` line.
PtWellFormed(h) ==
  /\ h \in 1..Len(ptText) /\ PtIsGit(h)
  /\ Truthy(PtPath(h))
  /\ PtHunkLines(h) # {}
  /\ ~PtHasBinary(h)

\* The hunks of section h in the order of their lines.
RECURSIVE PtHunksFrom(_, _)
PtHunksFrom(n, e) ==
  IF n > e THEN <<>>
  ELSE IF StartsWith(ptText[n], AT_AT) /\ TextHunkTable[ptText[n]] # Null
       THEN <<[hunk |-> TextHunkTable[ptText[n]][1], at |-> n]>> \o PtHunksFrom(n + 1, e)
       ELSE PtHunksFrom(n + 1, e)
PtHunks(h) == PtHunksFrom(h + 1, PtSectionEnd(h))

\* C24: every well-formed section has an entry under the path of its
\* header, whether another file header or the end of the text ends it, and
\* the entry holds all hunks of the section in order unless a later
\* well-formed section has the same path; the result has no other entries.
C24_WellFormedSectionsStored ==
  PtDone =>
    /\ \A h \in 1..Len(ptText) :
         PtWellFormed(h) =>
           \E i \in 1..Len(ptResult) :
             /\ Some(ptResult[i].key) = PtPath(h)
             /\ ptResult[i].path = ptResult[i].key
             /\ (\A g \in (h + 1)..Len(ptText) :
                   ~(PtWellFormed(g) /\ PtPath(g) = PtPath(h)))
                  => ptResult[i].hunks = PtHunks(h)
    /\ \A i \in 1..Len(ptResult) :
         \E h \in 1..Len(ptText) :
           PtWellFormed(h) /\ Some(ptResult[i].key) = PtPath(h)

\* C24 witness: two well-formed sections for two paths, the first ended by
\* the second file header and the second by the end of the text.
C24_Witness ==
  /\ PtDone /\ Len(ptText) = 4 /\ Len(ptResult) = 2
  /\ PtWellFormed(1) /\ PtWellFormed(3)
  /\ PtPath(1) # PtPath(3)
  /\ ptResult[1].hunks = PtHunks(1) /\ ptResult[2].hunks = PtHunks(3)

\* `diff --git a/<P> b/<P>` for a path P, and the paths of the headers of
\* the pool that have this form.
SamePathHeader(P) == DIFF_GIT \o <<"a", "/">> \o P \o <<" ", "b", "/">> \o P
PtPaths ==
  { <<"x">>,
    <<"d", BACKSLASH, "e">>,
    <<"x", " ", "b", "/", "y">>,
    <<QUOTE, "q", QUOTE>> }

\* C25 (as claimed): a section whose header is `diff --git a/<P> b/<P>`,
\* with a valid hunk header and no `Binary files ` line, is keyed by
\* normalize(P), also when P holds ` b/`.
C25_KeyedByWrittenPath ==
  PtDone =>
    \A h \in 1..Len(ptText) : \A P \in PtPaths :
      (/\ ptText[h] = SamePathHeader(P)
       /\ PtHunkLines(h) # {}
       /\ ~PtHasBinary(h))
        => \E i \in 1..Len(ptResult) : ptResult[i].key = normalizePath(P)

\* What the code does: the key is what follows the last ` b/` of the header.
C25_KeyedByTextAfterLastB ==
  PtDone =>
    \A h \in 1..Len(ptText) : \A P \in PtPaths :
      (/\ ptText[h] = SamePathHeader(P)
       /\ PtHunkLines(h) # {}
       /\ ~PtHasBinary(h))
        => \E i \in 1..Len(ptResult) :
             ptResult[i].key =
               IF P = <<"x", " ", "b", "/", "y">> THEN <<"y">> ELSE normalizePath(P)

\* ------------------------------------------------------------------------
\* Claims about calculateDefinitionDiff on hunk lists (checked under
\* SpecDefPool)
\* ------------------------------------------------------------------------
\* The permutations of 1..n.
Perms(n) == {p \in [1..n -> 1..n] : \A i, j \in 1..n : p[i] = p[j] => i = j}

\* C26: the result is the same for every reordering of the hunk list.
C26_OrderOfHunksIrrelevant ==
  DefDone =>
    \A p \in Perms(Len(defHunks)) :
      calculateDefinitionDiff(def, [i \in 1..Len(defHunks) |-> defHunks[p[i]]]) = defResult

\* C26 witness: three different hunks, two of them counted for the
\* definition and one starting after it, with a result.
C26_Witness ==
  /\ DefDone /\ Len(defHunks) = 3
  /\ defHunks[1] # defHunks[2] /\ defHunks[2] # defHunks[3] /\ defHunks[1] # defHunks[3]
  /\ defHunks[1].newStart > def.endLine
  /\ Touches(def, defHunks[2]) /\ Touches(def, defHunks[3])
  /\ defResult # Null /\ defResult[1].added > 0 /\ defResult[1].deleted > 0

\* What one hunk alone gives for definition d: the counts of the result for
\* the list holding only this hunk, 0 and 0 for null.
Contribution(d, hunk) ==
  LET r == calculateDefinitionDiff(d, <<hunk>>)
  IN  IF r = Null THEN [added |-> 0, deleted |-> 0]
      ELSE [added |-> r[1].added, deleted |-> r[1].deleted]

\* A hunk with removed lines only.
PureDeletion(hunk) == hunk.newCount = 0 /\ hunk.oldCount > 0

\* C27: for a hunk with newCount >= 1 the touch test holds exactly when the
\* hunk gives an added line (so its oldCount is counted exactly then); a
\* pure deletion is counted, with its whole oldCount, exactly when
\* line < newStart <= endLine, so not at newStart = line; a result with
\* added = 0 and deleted > 0 comes from such pure deletions only.
C27_TouchTestCases ==
  DefDone =>
    /\ \A i \in 1..Len(defHunks) :
         LET hunk == defHunks[i]
             c    == Contribution(def, hunk)
         IN  /\ hunk.newCount >= 1 =>
                  /\ Touches(def, hunk) <=> c.added >= 1
                  /\ c.deleted = IF c.added >= 1 THEN hunk.oldCount ELSE 0
             /\ PureDeletion(hunk) =>
                  /\ c.added = 0
                  /\ c.deleted = IF def.line < hunk.newStart /\ hunk.newStart <= def.endLine
                                 THEN hunk.oldCount ELSE 0
                  /\ hunk.newStart = def.line => c.deleted = 0
    /\ (defResult # Null /\ defResult[1].added = 0 /\ defResult[1].deleted > 0) =>
         /\ \E i \in 1..Len(defHunks) :
              /\ PureDeletion(defHunks[i])
              /\ def.line < defHunks[i].newStart /\ defHunks[i].newStart <= def.endLine
         /\ \A i \in 1..Len(defHunks) :
              Contribution(def, defHunks[i]).deleted > 0 =>
                /\ PureDeletion(defHunks[i])
                /\ def.line < defHunks[i].newStart /\ defHunks[i].newStart <= def.endLine

\* C27 witness: a pure deletion at the definition's first line and one
\* inside it; the result counts the second only.
C27_Witness ==
  /\ DefDone /\ Len(defHunks) = 2
  /\ PureDeletion(defHunks[1]) /\ defHunks[1].newStart = def.line
  /\ PureDeletion(defHunks[2]) /\ def.line < defHunks[2].newStart
  /\ defHunks[2].newStart <= def.endLine
  /\ defResult = Some([status |-> "updated", added |-> 0, deleted |-> defHunks[2].oldCount])

\* The new spans of the hunks of the list share no line.
DisjointNewSpans(hs) ==
  \A i, j \in 1..Len(hs) : i # j => NewSpan(hs[i]) \cap NewSpan(hs[j]) = {}

\* C28: when the new spans are pairwise disjoint, `added` is at most the
\* definition's line count, and status 'added' implies it equals the line
\* count.
C28_DisjointSpansBoundAdded ==
  (DefDone /\ DisjointNewSpans(defHunks) /\ defResult # Null) =>
    /\ defResult[1].added <= def.endLine - def.line + 1
    /\ defResult[1].status = "added" => defResult[1].added = def.endLine - def.line + 1

\* C28 witness: two hunks with disjoint new spans that together cover a
\* definition of three lines, which is 'added'.
C28_Witness ==
  /\ DefDone /\ Len(defHunks) = 2 /\ DisjointNewSpans(defHunks)
  /\ def = [line |-> 1, endLine |-> 3]
  /\ defHunks[1].newCount > 0 /\ defHunks[2].newCount > 0
  /\ defResult = Some([status |-> "added", added |-> 3, deleted |-> 0])

\* ------------------------------------------------------------------------
\* Claims about the per-definition counts and the file totals (checked
\* under SpecTotals)
\* ------------------------------------------------------------------------
TotDone == totPc = "done"

\* No two definitions of the set share a line.
DisjointRanges(D) ==
  \A d, e \in D : d # e => DefSpan(d) \cap DefSpan(e) = {}

\* The sum over the definitions of D of the `added` (or `deleted`) count of
\* their results, a null result counting 0.
RECURSIVE SumAdded(_, _)
SumAdded(D, diffs) ==
  IF D = {} THEN 0
  ELSE LET d == CHOOSE x \in D : TRUE
       IN  (IF diffs[d] = Null THEN 0 ELSE diffs[d][1].added) + SumAdded(D \ {d}, diffs)
RECURSIVE SumDeleted(_, _)
SumDeleted(D, diffs) ==
  IF D = {} THEN 0
  ELSE LET d == CHOOSE x \in D : TRUE
       IN  (IF diffs[d] = Null THEN 0 ELSE diffs[d][1].deleted) + SumDeleted(D \ {d}, diffs)

\* The totals of calculateFileDiff, a null result standing for no line.
FileAdded == IF totFileDiff = Null THEN 0 ELSE totFileDiff[1].added
FileDeleted == IF totFileDiff = Null THEN 0 ELSE totFileDiff[1].deleted

\* C29: for definitions with pairwise disjoint line ranges, the sum of the
\* per-definition `added` counts is at most the file's `added` total, the
\* sum of newCount.  (That `deleted` has no such bound is a reachable state:
\* C29_Witness.)
C29_AddedSumBounded ==
  (TotDone /\ DisjointRanges(totDefs)) =>
    /\ SumAdded(totDefs, totDefDiffs) <= FileAdded
    /\ FileAdded = NewCountTotal(totHunks)

\* C29 witness: two definitions with disjoint ranges and one hunk whose new
\* lines lie in both; each definition counts the hunk's whole oldCount, so
\* the `deleted` counts sum to more than the file's `deleted` total while
\* the `added` counts stay within the file's `added` total.
C29_Witness ==
  /\ TotDone /\ DisjointRanges(totDefs) /\ Cardinality(totDefs) = 2
  /\ Len(totHunks) = 1
  /\ \A d \in totDefs : totDefDiffs[d] # Null /\ totDefDiffs[d][1].added > 0
  /\ SumAdded(totDefs, totDefDiffs) <= FileAdded
  /\ SumDeleted(totDefs, totDefDiffs) > FileDeleted
  /\ FileDeleted = OldCountTotal(totHunks)

\* ------------------------------------------------------------------------
\* Skipped rows and earlier entries of parseNumstat (checked under
\* SpecNumstat)
\* ------------------------------------------------------------------------
\* A row the loop skips: `-` marker, a count that does not parse, or both
\* counts 0.
NsSkipped(fact) == fact.marker \/ fact.unparsed \/ fact.zero

\* C30: reading a skipped row leaves the mapping as it was; so when a kept
\* row is followed by a skipped row for the same normalized path, and by no
\* kept row for that path, the entry of the path holds the kept row's counts.
C30_SkippedRowKeepsEarlierEntry ==
  /\ [](\A n \in 1..Len(nsLines) : \A k \in (n + 1)..Len(nsLines) :
          (/\ NsFact(n).kept
           /\ NsSkipped(NsFact(k))
           /\ NsFact(k).key = NsFact(n).key
           /\ \A j \in (n + 1)..Len(nsLines) :
                ~(NsFact(j).kept /\ NsFact(j).key = NsFact(n).key))
            => \E i \in 1..Len(stats) :
                 /\ stats[i].key = NsFact(n).key
                 /\ stats[i].value = NsFact(n).counts)
  /\ [][(NsReads /\ NsSkipped(NsLineRead)) => stats' = stats]_vars

\* C30 witness: a kept row, then a row for the same path with a count that
\* does not parse and a row for the same path with both counts 0; the result
\* holds the first row's counts.
C30_Witness ==
  /\ NsDone /\ Len(nsLines) = 3 /\ Len(stats) = 1
  /\ NsFact(1).kept
  /\ NsFact(2).unparsed /\ ~NsFact(2).marker /\ NsFact(2).key = NsFact(1).key
  /\ NsFact(3).zero /\ NsFact(3).key = NsFact(1).key
  /\ stats[1].key = NsFact(1).key /\ stats[1].value = NsFact(1).counts

====
